---- MODULE Spec2Model ----
(***************************************************************************)
(* Model of the firmware's tick scheduler (scheduler.cpp): a fixed-size,   *)
(* time-sorted event queue driven by Timer 4 of the microcontroller.       *)
(*                                                                         *)
(* Time is counted in timer ticks.  The timer is modelled as the source    *)
(* describes it (scheduler.cpp, schedulerTimerSetup): it counts up to the  *)
(* value in OCR4A, resets to 0 once it hits that value and raises the      *)
(* compare-match interrupt.  Normal-context code and the interrupt handler *)
(* are interleaved at the places where the hardware allows it: the handler *)
(* can start whenever the interrupt is enabled and flagged, in particular  *)
(* between the capacity check of scheduleEvent and its timer stop.         *)
(***************************************************************************)
EXTENDS Integers, Sequences, FiniteSets, TLC

(* ---------------------------------------------------------------------- *)
(* Program constants                                                       *)
(* ---------------------------------------------------------------------- *)
SCHEDULER_MAX_EVENTS == 8

\* uint16_t arithmetic: values are kept modulo 2^16
UINT16_MOD == 65536

\* Period with which eventESP32Poll reschedules itself
ESP32_POLL_TICKS == 781
HEALTH_CHECK_TICKS == 1563
KILL_TONE_MS == 10
TICK_US == 64
LOW_BATTERY_THRESHOLD == 10
BATTERY_SCALE == 15744015
ADC_MAX == 1023

\* Delay used by callback_schedules_2_in_5000_ticks
NESTED_TICKS == 5000

(* ---------------------------------------------------------------------- *)
(* Bounds of the model                                                     *)
(* ---------------------------------------------------------------------- *)
\* Number of scheduleEvent / cancelEvents calls made from normal context
MaxCalls == 4

\* Number of calls made from normal context when the queue is filled up
MaxFillCalls == 9

\* A normal-context call is made at most this many ticks after the timer
\* was last programmed; otherwise time runs on to the next compare match.
MaxElapsed == 1

\* Ticks that can pass while the interrupt handler runs its callbacks
MaxIsrTicks == 1

\* Largest delay requested for the plain callbacks
MaxDelay == 2

\* The requests made from normal context: callback1 with every small delay,
\* the others with one delay each
Requests ==
    { [callback |-> "callback1", ticks |-> d] : d \in 0..MaxDelay }
    \cup { [callback |-> "callback2", ticks |-> 2],
           [callback |-> "eventESP32Poll", ticks |-> 1],
           [callback |-> "buzzerOff", ticks |-> 3],
           [callback |-> "callback_schedules_1_and_2", ticks |-> 1] }

\* The callbacks cancelled from normal context
CancelTargets == {"callback1", "callback2", "buzzerOff"}

\* The requests made when callbacks take time
SlowRequests ==
    { [callback |-> cb, ticks |-> d] : cb \in {"callback1", "callback2"}, d \in 1..MaxDelay }
    \cup { [callback |-> "buzzerOff", ticks |-> 3],
           [callback |-> "callback_schedules_1_and_2", ticks |-> 3] }

\* Number of calls made with delays at both ends of the 16-bit range
MaxWideCalls == 3

WideDelays == {0, 1, 2, 3, 65534, 65535}

WideRequests ==
    { [callback |-> cb, ticks |-> d] : cb \in {"callback1", "callback2"}, d \in WideDelays }

\* Number of calls made with requests of zero ticks and of one tick
MaxShortCalls == 3

ShortRequests ==
    { [callback |-> "callback1", ticks |-> 0],
      [callback |-> "callback2", ticks |-> 0],
      [callback |-> "callback2", ticks |-> 1] }

\* Number of normal-context calls followed statement by statement
MaxStepCalls == 3

(* ---------------------------------------------------------------------- *)
(* Bounds and inputs of the co-processor driver                            *)
(* ---------------------------------------------------------------------- *)
\* Number of driver calls made with frames of every length
MaxFrameCalls == 3

\* Number of driver calls made around the blocking waits
MaxWaitCalls == 3

\* Number of driver calls made around a firmware download
MaxFlashCalls == 4

\* Longest time, in milliseconds, that one 48-byte transfer takes
MaxPollMs == 1
MaxLinkCalls == 4
MaxBleCalls == 3
MaxAnswerPolls == 2
MaxInputCalls == 3
MaxFlashingPolls == 203
MaxHealthCalls == 2
MaxSleepCalls == 2
MaxHealthMs == 120

\* Number of driver calls made with frames of every LEN byte
MaxLenCalls == 3

\* Number of driver calls made with servicePoll followed statement by statement
MaxServiceCalls == 4

\* Number of normal-context scheduleEvent calls made with a delay in between
MaxDelayedCalls == 2

\* Number of normal-context scheduleEvent calls made around a callback that
\* schedules
MaxNestedCalls == 2

\* Number of normal-context scheduleEvent calls made while the health check
\* shares the queue with user events
MaxCrowdCalls == 8

\* The requests made when the queue is filled up
FillRequests ==
    { [callback |-> "callback1", ticks |-> MaxDelay],
      [callback |-> "buzzerOff", ticks |-> 2],
      [callback |-> "callback_schedules_1_and_2", ticks |-> 1] }

(* ---------------------------------------------------------------------- *)
(* Callbacks.  A callback is identified by its name (the function pointer) *)
(* and its body is the list of scheduler calls it makes.                   *)
(* ---------------------------------------------------------------------- *)
Callbacks ==
    {"callback1", "callback2", "eventESP32Poll",
     "callback_schedules_2_in_5000_ticks", "buzzerOff", "callback_schedules_1_and_2"}

CallbackBody(cb) ==
    CASE cb = "eventESP32Poll" ->
            << [op |-> "schedule", callback |-> "eventESP32Poll", ticks |-> ESP32_POLL_TICKS] >>
      [] cb = "eventHealthCheck" ->
            << [op |-> "schedule", callback |-> "eventHealthCheck", ticks |-> HEALTH_CHECK_TICKS] >>
      [] cb = "callback_schedules_2_in_5000_ticks" ->
            << [op |-> "schedule", callback |-> "callback2", ticks |-> NESTED_TICKS] >>
      [] cb = "buzzerOff" ->
            << [op |-> "cancel", callback |-> "buzzerOff", ticks |-> 0] >>
      [] cb = "callback_schedules_1_and_2" ->
            << [op |-> "schedule", callback |-> "callback1", ticks |-> 1],
               [op |-> "schedule", callback |-> "callback2", ticks |-> 2] >>
      [] OTHER -> << >>

(* ---------------------------------------------------------------------- *)
(* State                                                                   *)
(* ---------------------------------------------------------------------- *)
VARIABLES
    eventData,          \* slots 0 .. numEventsPending-1 of the array, as a sequence
    numEventsPending,   \* uint8_t count of pending events
    OCR4A,              \* compare value: the programmed interval
    TCNT4,              \* timer counter
    TCCR4B,             \* TRUE when the timer is connected to its clock
    TIMSK4,             \* TRUE when the compare-match interrupt is enabled
    TIFR4,              \* TRUE when the compare-match interrupt flag is set
    inISR,              \* TRUE while ISR(TIMER4_COMPA_vect) runs
    mainPc,             \* position of normal-context code: "idle" or "checked"
    arg,                \* arguments of the normal-context scheduleEvent in progress
    outOfBounds,        \* TRUE once a write went to a slot outside 0..7
    calls,              \* number of normal-context calls made so far
    last,               \* the last operation: what ran and what it returned
    esp32,              \* esp32.cpp: statics, the frames of the last exchange, counters
    link,               \* FEHESP32.cpp: the static fields of FEHESP32
    millis,             \* Arduino millis(), an unsigned 32-bit count
    wait,               \* the blocking wait in progress, if any
    done,               \* the last driver operation: what ran and what it returned
    caller,             \* normal-context code that calls the driver: its position and locals
    g_esp32PollPending, \* FEHInternal.cpp: flag set by the poll task, drained by servicePoll
    board               \* pins and registers of the board: fault lines, battery, motors

\* The state of the scheduler, and the state of the co-processor driver
schedVars == << eventData, numEventsPending, OCR4A, TCNT4, TCCR4B, TIMSK4, TIFR4,
                inISR, mainPc, arg, outOfBounds, calls, last >>

driverVars == << esp32, link, millis, wait, done, caller, g_esp32PollPending, board >>

\* What the code calling the driver keeps
callerVars == << caller, g_esp32PollPending, board >>

vars == << eventData, numEventsPending, OCR4A, TCNT4, TCCR4B, TIMSK4, TIFR4,
           inISR, mainPc, arg, outOfBounds, calls, last,
           esp32, link, millis, wait, done, caller, g_esp32PollPending, board >>

NoArg == [callback |-> "none", ticks |-> 0, req |-> 0]

\* What the last step did: the operation, its callback, the delay requested
\* (or of the entry dispatched), the age of the entry dispatched, the value
\* returned, whether a subtraction was clamped to zero and how many entries
\* were removed.
Did(op, cb, req, age, ret) ==
    [op |-> op, callback |-> cb, req |-> req, age |-> age, ret |-> ret,
     clamped |-> FALSE, removed |-> 0]

NoOp == Did("none", "none", 0, 0, TRUE)

\* struct EventData {callback, ticks}; req and age are bookkeeping of the
\* model: the delay that was requested and the ticks elapsed since insertion.
EventData(cb, t, r) == [callback |-> cb, ticks |-> t, req |-> r, age |-> 0]

\* The scheduler's own state as one record, so that calls can be nested
Sched ==
    [q |-> eventData, n |-> numEventsPending, ocr |-> OCR4A, tcnt |-> TCNT4,
     cs |-> TCCR4B, ie |-> TIMSK4, flag |-> TIFR4, oob |-> outOfBounds,
     clamp |-> FALSE, removed |-> 0]

SetSched(S) ==
    /\ eventData' = S.q
    /\ numEventsPending' = S.n
    /\ OCR4A' = S.ocr
    /\ TCNT4' = S.tcnt
    /\ TCCR4B' = S.cs
    /\ TIMSK4' = S.ie
    /\ TIFR4' = S.flag
    /\ outOfBounds' = S.oob

(* ---------------------------------------------------------------------- *)
(* scheduler.cpp                                                           *)
(* ---------------------------------------------------------------------- *)
\* A timer stop that leaves the clock and the interrupt as they are
schedulerTimerDisable_LeavesRunning(S) == S

schedulerTimerDisable(S) ==
    [S EXCEPT !.cs = FALSE, !.ie = FALSE, !.flag = FALSE]

\* A setup that programs the compare value but never starts the clock
schedulerTimerSetup_NoClock(S) ==
    IF S.n > 0
    THEN [S EXCEPT !.ocr = S.q[1].ticks, !.ie = TRUE, !.tcnt = 0]
    ELSE S

schedulerTimerSetup(S) ==
    IF S.n > 0
    THEN [S EXCEPT !.ocr = S.q[1].ticks, !.ie = TRUE, !.cs = TRUE, !.tcnt = 0]
    ELSE S

\* A compensation that lets a request end up with 0 ticks
CompensateTicks_NoMinimum(ticks) ==
    IF ticks >= 1 THEN (ticks - 1) % UINT16_MOD ELSE ticks

\* Lines 77-87: compensate the setup time, and no 0-tick events
CompensateTicks(ticks) ==
    LET t1 == IF ticks >= 1 THEN (ticks - 1) % UINT16_MOD ELSE ticks
    IN  IF t1 = 0 THEN 1 ELSE t1

\* A subtraction without the check for underflow: the uint16_t wraps around
SubtractClamped_Wraps(ticks, elapsed) == (ticks - elapsed) % UINT16_MOD

\* One step of the "subtract time elapsed" loops
SubtractClamped(ticks, elapsed) ==
    IF ticks < elapsed THEN 0 ELSE (ticks - elapsed) % UINT16_MOD

SubtractElapsed(q, elapsed) ==
    [i \in DOMAIN q |-> [q[i] EXCEPT !.ticks = SubtractClamped(@, elapsed)]]

\* Whether the subtraction takes the branch that clamps to zero
Clamps(q, elapsed) == \E i \in DOMAIN q : q[i].ticks < elapsed

\* An insertion that always puts the new entry first
InsertPosition_Front(q, ticks) == 0

\* Lines 125-132: walk down from the last entry while it is later than e
InsertPosition(q, ticks) ==
    LET le == {i \in DOMAIN q : \A j \in (i+1)..Len(q) : q[j].ticks > ticks}
        stop == {i \in le : q[i].ticks <= ticks}
    IN  IF stop = {} THEN 0 ELSE CHOOSE i \in stop : \A j \in stop : j <= i

InsertSorted(q, e) ==
    LET k == InsertPosition(q, e.ticks)
    IN  SubSeq(q, 1, k) \o << e >> \o SubSeq(q, k + 1, Len(q))

\* An insertion that forgets the ticks elapsed since the timer was programmed
scheduleEventInsert_NoElapsed(S, cb, ticks, req) ==
    LET S1 == schedulerTimerDisable(S)
        q2 == InsertSorted(S1.q, EventData(cb, ticks, req))
        S2 == [S1 EXCEPT !.q = q2, !.n = S1.n + 1,
                         !.oob = S1.oob \/ (S1.n + 1 > SCHEDULER_MAX_EVENTS)]
    IN  schedulerTimerSetup(S2)

\* Lines 95-140: the part of scheduleEvent after the capacity check
scheduleEventInsert(S, cb, ticks, req) ==
    LET S1 == schedulerTimerDisable(S)
        q1 == SubtractElapsed(S1.q, S1.tcnt)
        q2 == InsertSorted(q1, EventData(cb, ticks, req))
        S2 == [S1 EXCEPT !.q = q2, !.n = S1.n + 1,
                         !.oob = S1.oob \/ (S1.n + 1 > SCHEDULER_MAX_EVENTS),
                         !.clamp = S1.clamp \/ Clamps(S1.q, S1.tcnt)]
    IN  schedulerTimerSetup(S2)

\* A capacity check that is off by one
QueueFull_OffByOne(n) == n > SCHEDULER_MAX_EVENTS

\* Line 90: the capacity check
QueueFull(n) == n >= SCHEDULER_MAX_EVENTS

\* scheduleEvent run without interruption (as a callback inside the handler runs it)
scheduleEvent(S, cb, ticks) ==
    IF QueueFull(S.n)
    THEN S
    ELSE scheduleEventInsert(S, cb, CompensateTicks(ticks), ticks)

\* A removal loop that steps on after each removal, over the entry that moved up
RECURSIVE RemoveCallback_SkipNext(_, _, _)
RemoveCallback_SkipNext(q, i, cb) ==
    IF i > Len(q) THEN q
    ELSE IF q[i].callback = cb
         THEN RemoveCallback_SkipNext(SubSeq(q, 1, i - 1) \o SubSeq(q, i + 1, Len(q)), i + 1, cb)
         ELSE RemoveCallback_SkipNext(q, i + 1, cb)

\* Lines 207-229: remove every entry with the given callback, from index i on
RECURSIVE RemoveCallback(_, _, _)
RemoveCallback(q, i, cb) ==
    IF i > Len(q) THEN q
    ELSE IF q[i].callback = cb
         THEN RemoveCallback(SubSeq(q, 1, i - 1) \o SubSeq(q, i + 1, Len(q)), i, cb)
         ELSE RemoveCallback(q, i + 1, cb)

\* A cancelEvents that forgets the ticks elapsed since the timer was programmed
cancelEvents_NoElapsed(S, cb) ==
    LET S1 == schedulerTimerDisable(S)
        q2 == RemoveCallback(S1.q, 1, cb)
        S2 == [S1 EXCEPT !.q = q2, !.n = Len(q2),
                         !.removed = S1.removed + (Len(S1.q) - Len(q2))]
    IN  schedulerTimerSetup(S2)

cancelEvents(S, cb) ==
    LET S1 == schedulerTimerDisable(S)
        q1 == SubtractElapsed(S1.q, S1.tcnt)
        q2 == RemoveCallback(q1, 1, cb)
        S2 == [S1 EXCEPT !.q = q2, !.n = Len(q2),
                         !.clamp = S1.clamp \/ Clamps(S1.q, S1.tcnt),
                         !.removed = S1.removed + (Len(q1) - Len(q2))]
    IN  schedulerTimerSetup(S2)

\* The scheduler calls a callback body makes, in order
RECURSIVE RunCalls(_, _)
RunCalls(S, cs) ==
    IF cs = << >> THEN S
    ELSE LET c == Head(cs)
             S1 == IF c.op = "schedule"
                   THEN scheduleEvent(S, c.callback, c.ticks)
                   ELSE cancelEvents(S, c.callback)
         IN  RunCalls(S1, Tail(cs))

(* ---------------------------------------------------------------------- *)
(* UpdaterProtocol.h, ApplicationProtocol.h, esp32.h                       *)
(* ---------------------------------------------------------------------- *)
UPDATER_PROTOCOL_SYNC_BYTE_1 == 170
UPDATER_PROTOCOL_SYNC_BYTE_2 == 85
UPDATER_PROTOCOL_DATA_SIZE == 41
UPDATER_PROTOCOL_HEADER_SIZE == 4
ESP32_TX_BUF_LEN == 48
UINT8_MOD == 256
WAIT_DELAY_MS == 10
RESET_MS == 1600
READY_FIRST_TIMEOUT_MS == 1000
READY_TIMEOUT_MS == 2000
READY_DELAY_MS == 10
WIFI_TIMEOUT_MS == 5000
FLASH_START_TIMEOUT_MS == 10000
FLASH_POLL_DELAY_MS == 50
VALIDATE_TIMEOUT_MS == 5000
BOOT_ACK_TIMEOUT_MS == 1000
STATUS_DELAY_MS == 500
UPDATER_DELAY_MS == 250
WIFI_FAILED_DELAY_MS == 1000
OTA_WIFI_SSID_LEN == 8
OTA_WIFI_PASS_LEN == 12
FIRMWARE_URL_LEN == 23
EXPECTED_ESP_FIRMWARE_VERSION_MAJOR == 1
EXPECTED_ESP_FIRMWARE_VERSION_MINOR == 0
EXPECTED_ESP_FIRMWARE_VERSION_PATCH == 0
BLE_NAME_ACK_TIMEOUT_MS == 5000
BLE_START_DELAY_MS == 20
BLE_NAME_MAX == 16
WIFI_FIELD_MAX == 16
RCS_KEY_MAX == 9
URL_MAX == 32
LOG_MAX == 32
OTA_WIFI_CHANNEL == 6
CMD_WIFI_CONNECT == 16
CMD_WIFI_CONNECT_FAST == 17
CMD_RCS_CONNECT == 48
CMD_SET_BOOT_PARTITION == 49
CMD_VALIDATE_PARTITION == 50
PARTITION_FACTORY == 0
PARTITION_OTA_0 == 1

CMD_PING == 1
CMD_BLE_SEND_LOG == 66
CMD_BLE_SET_NAME == 67
CMD_DOWNLOAD_AND_FLASH == 48
RSP_ACK == 128
RSP_ERROR == 129
RSP_PONG == 130
NOTIFY_WIFI_CONNECTED == 145
NOTIFY_WIFI_FAILED == 146
NOTIFY_WIFI_DISCONNECTED == 147
RSP_PARTITION_VALID == 176
NOTIFY_FLASH_PROGRESS == 177
NOTIFY_FLASH_COMPLETE == 178
NOTIFY_FLASH_FAILED == 179
NOTIFY_RCS_CONNECTED == 192
NOTIFY_RCS_DISCONNECTED == 193
NOTIFY_RCS_DATA == 194
NOTIFY_DEBUG == 131
CMD_BLE_START == 64
CMD_BLE_STOP == 65
RSP_BLE_STATUS == 195
NOTIFY_BLE_CLIENT_EVENT == 196
BLE_STATE_OFF == 0
BLE_STATE_ADVERTISING == 1
BLE_STATE_CONNECTED == 2
BLE_EVENT_CLIENT_CONNECTED == 1
BLE_EVENT_CLIENT_DISCONNECTED == 2

(* ---------------------------------------------------------------------- *)
(* Bytes, frames and 32-bit unsigned values                                *)
(* ---------------------------------------------------------------------- *)
Min(a, b) == IF a < b THEN a ELSE b

\* memset(buf, 0, n)
Zeros(n) == [i \in 1..n |-> 0]

\* The first n bytes of a buffer
Take(b, n) == SubSeq(b, 1, Min(n, Len(b)))

\* A zeroed 48-byte buffer with b copied to its start
InFrame(b) == b \o Zeros(ESP32_TX_BUF_LEN - Len(b))

\* A uint32_t, kept as its two 16-bit halves
U32(h, l) == [hi |-> h, lo |-> l]

Less32(x, y) == x.hi < y.hi \/ (x.hi = y.hi /\ x.lo < y.lo)

\* A subtraction of the two halves without the borrow between them
Sub32_NoBorrow(x, y) ==
    U32((x.hi - y.hi) % UINT16_MOD, (x.lo - y.lo) % UINT16_MOD)

\* x - y in unsigned 32-bit arithmetic
Sub32(x, y) ==
    LET borrow == IF x.lo < y.lo THEN 1 ELSE 0
    IN  U32((x.hi - y.hi - borrow) % UINT16_MOD, (x.lo - y.lo) % UINT16_MOD)

\* x + n in unsigned 32-bit arithmetic, n a small natural
Add32(x, n) ==
    U32((x.hi + ((x.lo + n) \div UINT16_MOD)) % UINT16_MOD, (x.lo + n) % UINT16_MOD)

\* The 4 bytes read with the most significant byte first
LittleEndian32_BigEndian(b0, b1, b2, b3) == U32(b1 + UINT8_MOD * b0, b3 + UINT8_MOD * b2)

\* memcpy of 4 bytes into a uint32_t on the little-endian AVR
LittleEndian32(b0, b1, b2, b3) == U32(b2 + UINT8_MOD * b3, b0 + UINT8_MOD * b1)

\* The unit in the last place of the float nearest to a uint32_t: 1 below 2^24
FloatUlp(x) ==
    IF x.hi < 256 THEN 1
    ELSE CHOOSE u \in {2, 4, 8, 16, 32, 64, 128, 256} : 128 * u <= x.hi /\ x.hi < 256 * u

\* (float)x: the 24-bit significand rounds to nearest, ties to even
Float32(x) ==
    LET u  == FloatUlp(x)
        q  == x.lo \div u
        r  == x.lo % u
        up == 2 * r > u \/ (2 * r = u /\ q % 2 = 1)
        l  == IF up THEN (q + 1) * u ELSE q * u
    IN  IF l = UINT16_MOD THEN U32(x.hi + 1, 0) ELSE U32(x.hi, l)

(* ---------------------------------------------------------------------- *)
(* esp32.cpp: frames out and in                                            *)
(* ---------------------------------------------------------------------- *)
\* A test of the first sync byte only
HasSyncBytes_FirstOnly(b) == Len(b) >= 2 /\ b[1] = UPDATER_PROTOCOL_SYNC_BYTE_1

\* Line 75: data already has the sync bytes
HasSyncBytes(b) ==
    /\ Len(b) >= 2
    /\ b[1] = UPDATER_PROTOCOL_SYNC_BYTE_1
    /\ b[2] = UPDATER_PROTOCOL_SYNC_BYTE_2

\* A frame whose payload starts one byte late
sendCommandFrame_Shifted(cmd, data) ==
    IF HasSyncBytes(data)
    THEN InFrame(Take(data, ESP32_TX_BUF_LEN))
    ELSE InFrame(<< UPDATER_PROTOCOL_SYNC_BYTE_1, UPDATER_PROTOCOL_SYNC_BYTE_2,
                    cmd, Len(data) % UINT8_MOD, 0 >>
                 \o Take(data, ESP32_TX_BUF_LEN - 5))

\* Lines 71-88: the frame sendCommand transfers; dataLen is Len(data)
sendCommandFrame(cmd, data) ==
    IF HasSyncBytes(data)
    THEN InFrame(Take(data, ESP32_TX_BUF_LEN))
    ELSE InFrame(<< UPDATER_PROTOCOL_SYNC_BYTE_1, UPDATER_PROTOCOL_SYNC_BYTE_2,
                    cmd, Len(data) % UINT8_MOD >>
                 \o Take(data, ESP32_TX_BUF_LEN - 4))

\* Lines 133-142: command id, validated length and total length of a frame
ReceivedDataLen(rxBuf) ==
    Min(rxBuf[4], ESP32_TX_BUF_LEN - UPDATER_PROTOCOL_HEADER_SIZE)

ReceivedTotalLen(rxBuf) == UPDATER_PROTOCOL_HEADER_SIZE + ReceivedDataLen(rxBuf)

\* What the inbound dispatch takes out of a frame
ReceivedMessage(rxBuf) ==
    [command |-> rxBuf[3],
     length  |-> ReceivedDataLen(rxBuf),
     payload |-> SubSeq(rxBuf, 5, 4 + ReceivedDataLen(rxBuf))]

(* ---------------------------------------------------------------------- *)
(* FEHESP32.cpp: the static fields and the message handler                 *)
(* ---------------------------------------------------------------------- *)
\* Lines 5-20
LinkDefaults ==
    [s_version |-> [major |-> 0, minor |-> 0, patch |-> 0, partition |-> 255],
     s_connected |-> FALSE,
     s_flashing |-> FALSE,
     s_flashComplete |-> FALSE,
     s_flashError |-> FALSE,
     s_flashErrorCode |-> 0,
     s_flashBytes |-> U32(0, 0),
     s_flashTotal |-> U32(0, 0),
     s_partitionValid |-> FALSE,
     s_validatedPartition |-> 255,
     s_lastAckedCmd |-> 0,
     s_wifiConnectResult |-> FALSE,
     s_wifiConnectSuccess |-> FALSE,
     s_rcsConnected |-> FALSE,
     s_bleState |-> BLE_STATE_OFF,
     s_rcsCallback |-> "nullptr",
     RCS |-> [_correctLever |-> 0, hasLever |-> FALSE, _leverFlipped |-> 0,
              _dualSliderStatus |-> 0, _time |-> 0]]

\* esp32.cpp lines 5-7, and what the last exchange carried
Esp32Defaults ==
    [s_isInitialized |-> FALSE,
     s_rxCallback |-> "nullptr",
     tx |-> << >>,
     rx |-> << >>,
     exchanges |-> 0,
     callbacks |-> 0,
     len |-> 0]

\* data[i] of handleMessage: data points at msg[4]
DataByte(msg, i) == msg[5 + i]

\* A handler that leaves the time remaining as it was
handleRCSData_KeepsTime(R, msg, len) ==
    IF len >= 5
    THEN [R EXCEPT !._correctLever = DataByte(msg, 0),
                   !.hasLever = TRUE,
                   !._leverFlipped = DataByte(msg, 1),
                   !._dualSliderStatus = DataByte(msg, 2)]
    ELSE R

\* FEHRCS::handleRCSData, part_007 lines 374-394, on the RCS record R
handleRCSData(R, msg, len) ==
    IF len >= 5
    THEN [R EXCEPT !._correctLever = DataByte(msg, 0),
                   !.hasLever = TRUE,
                   !._leverFlipped = DataByte(msg, 1),
                   !._dualSliderStatus = DataByte(msg, 2),
                   !._time = DataByte(msg, 3)]
    ELSE R

\* FEHESP32::handleMessage, lines 329-457
handleMessage(L, msg, len) ==
    IF len < 4 THEN L
    ELSE LET cmd == msg[3]
         IN  CASE cmd = RSP_ACK ->
                    IF len >= 5 THEN [L EXCEPT !.s_lastAckedCmd = DataByte(msg, 0)] ELSE L
               [] cmd = RSP_PONG ->
                    IF len >= 8
                    THEN [L EXCEPT !.s_version = [major |-> DataByte(msg, 0),
                                                  minor |-> DataByte(msg, 1),
                                                  patch |-> DataByte(msg, 2),
                                                  partition |-> DataByte(msg, 3)]]
                    ELSE L
               [] cmd = NOTIFY_WIFI_CONNECTED ->
                    [L EXCEPT !.s_connected = TRUE,
                              !.s_wifiConnectResult = TRUE,
                              !.s_wifiConnectSuccess = TRUE]
               [] cmd \in {NOTIFY_WIFI_DISCONNECTED, NOTIFY_WIFI_FAILED} ->
                    [L EXCEPT !.s_connected = FALSE,
                              !.s_wifiConnectResult = TRUE,
                              !.s_wifiConnectSuccess = FALSE]
               [] cmd = NOTIFY_RCS_CONNECTED -> [L EXCEPT !.s_rcsConnected = TRUE]
               [] cmd = NOTIFY_RCS_DISCONNECTED -> [L EXCEPT !.s_rcsConnected = FALSE]
               [] cmd = NOTIFY_RCS_DATA ->
                    IF L.s_rcsCallback # "nullptr" /\ len > 4
                    THEN [L EXCEPT !.RCS = handleRCSData(@, msg, msg[4])]
                    ELSE L
               [] cmd = NOTIFY_FLASH_PROGRESS ->
                    IF len >= 12
                    THEN [L EXCEPT !.s_flashBytes =
                                       LittleEndian32(DataByte(msg, 0), DataByte(msg, 1),
                                                      DataByte(msg, 2), DataByte(msg, 3)),
                                   !.s_flashTotal =
                                       LittleEndian32(DataByte(msg, 4), DataByte(msg, 5),
                                                      DataByte(msg, 6), DataByte(msg, 7)),
                                   !.s_flashing = TRUE]
                    ELSE L
               [] cmd = NOTIFY_FLASH_COMPLETE ->
                    [L EXCEPT !.s_flashing = FALSE, !.s_flashComplete = TRUE]
               [] cmd = NOTIFY_FLASH_FAILED ->
                    [L EXCEPT !.s_flashing = FALSE,
                              !.s_flashError = TRUE,
                              !.s_flashErrorCode =
                                  IF len >= 5 THEN DataByte(msg, 0) ELSE @]
               [] cmd = RSP_PARTITION_VALID ->
                    IF len >= 5
                    THEN [L EXCEPT !.s_partitionValid = TRUE,
                                   !.s_validatedPartition = DataByte(msg, 0)]
                    ELSE L
               [] cmd = RSP_BLE_STATUS ->
                    IF len >= 5 THEN [L EXCEPT !.s_bleState = DataByte(msg, 0)] ELSE L
               [] cmd = NOTIFY_BLE_CLIENT_EVENT ->
                    IF len >= 5 /\ DataByte(msg, 0) = BLE_EVENT_CLIENT_CONNECTED
                    THEN [L EXCEPT !.s_bleState = BLE_STATE_CONNECTED]
                    ELSE IF len >= 5 /\ DataByte(msg, 0) = BLE_EVENT_CLIENT_DISCONNECTED
                    THEN [L EXCEPT !.s_bleState = BLE_STATE_ADVERTISING]
                    ELSE L
               [] OTHER -> L

\* The length handleMessage gives to the RCS data callback, line 397:
\* dataLen = msg[3], the LEN byte as received
rcsCallbackLen(msg) == msg[4]

\* The indices of msg, counted from 0, that handleMessage and the callback
\* it calls read: the fixed fields of each kind of frame once len admits them,
\* and for NOTIFY_DEBUG (lines 359-371) data[0] .. data[msg[3] - 1]
handleMessageReads(L, msg, len) ==
    IF len < 4 THEN {}
    ELSE LET cmd == msg[3]
             data(n) == { 4 + i : i \in 0..(n - 1) }
         IN  {2} \cup
             CASE cmd \in {RSP_ACK, NOTIFY_FLASH_FAILED, RSP_PARTITION_VALID,
                           RSP_BLE_STATUS, NOTIFY_BLE_CLIENT_EVENT} ->
                    IF len >= 5 THEN data(1) ELSE {}
               [] cmd = RSP_PONG -> IF len >= 8 THEN data(4) ELSE {}
               [] cmd = NOTIFY_FLASH_PROGRESS -> IF len >= 12 THEN data(8) ELSE {}
               [] cmd = NOTIFY_DEBUG -> IF len > 4 THEN {3} \cup data(msg[4]) ELSE {}
               [] cmd = NOTIFY_RCS_DATA ->
                    IF L.s_rcsCallback # "nullptr" /\ len > 4
                    THEN {3} \cup (IF rcsCallbackLen(msg) >= 5 THEN data(4) ELSE {})
                    ELSE {}
               [] OTHER -> {}

\* Lines 128-147 of esp32.cpp with FEHESP32::handleMessage as the callback:
\* the driver state after a received frame
handleReceivedMessage(D, rxBuf) ==
    IF ~HasSyncBytes(rxBuf)
    THEN D
    ELSE IF D.esp32.s_rxCallback = "nullptr"
    THEN D
    ELSE [esp32 |-> [D.esp32 EXCEPT !.callbacks = @ + 1,
                                    !.len = ReceivedTotalLen(rxBuf)],
          link  |-> handleMessage(D.link, rxBuf, ReceivedTotalLen(rxBuf))]

\* Lines 90-91 and 108-109: one 48-byte transfer and the dispatch of what came in
Exchange(D, txBuf, rxBuf) ==
    handleReceivedMessage(
        [D EXCEPT !.esp32.tx = txBuf, !.esp32.rx = rxBuf, !.esp32.exchanges = @ + 1],
        rxBuf)

\* A sendCommand without the test of s_isInitialized
sendCommand_NoInitCheck(D, cmd, data, rxBuf) ==
    [ret |-> TRUE, D |-> Exchange(D, sendCommandFrame(cmd, data), rxBuf)]

\* ESP32::sendCommand, lines 65-94
sendCommand(D, cmd, data, rxBuf) ==
    IF ~D.esp32.s_isInitialized
    THEN [ret |-> FALSE, D |-> D]
    ELSE [ret |-> TRUE, D |-> Exchange(D, sendCommandFrame(cmd, data), rxBuf)]

\* ESP32::poll, lines 96-110: the transmit buffer is all zeros
poll(D, rxBuf) ==
    IF ~D.esp32.s_isInitialized
    THEN D
    ELSE Exchange(D, Zeros(ESP32_TX_BUF_LEN), rxBuf)

\* A null pointer to bytes, and a null pointer to a string (strings are
\* given by their lengths)
NullPtr == << >>

NoString == -1

\* uint8_t len = strlen(s): the length of a string kept in 8 bits
StrLen8(n) == n % UINT8_MOD

\* The bytes of a string of n characters
Chars(n) == [i \in 1..n |-> 97]

\* A length-prefixed string of n characters
Prefixed(n) == << n >> \o Chars(n)

\* What a driver command returns without sending anything
Refused(D, data) == [ret |-> FALSE, D |-> D, cmd |-> 0, data |-> data]

\* ESP32::sendCommand with the command and payload kept for the record
Command(D, cmd, data, rxBuf) ==
    [ret |-> sendCommand(D, cmd, data, rxBuf).ret,
     D |-> sendCommand(D, cmd, data, rxBuf).D,
     cmd |-> cmd, data |-> data]

\* FEHESP32::ping, lines 48-51
ping(D, rxBuf) == Command(D, CMD_PING, << >>, rxBuf)

\* FEHESP32::connectWifi, lines 53-71; ssid and password given by their lengths
connectWifi(D, ssid, password, rxBuf) ==
    LET ssidLen == StrLen8(ssid)
        passLen == StrLen8(password)
    IN  IF ssidLen > WIFI_FIELD_MAX \/ passLen > WIFI_FIELD_MAX
        THEN Refused(D, << ssidLen, passLen >>)
        ELSE Command(D, CMD_WIFI_CONNECT, Prefixed(ssidLen) \o Prefixed(passLen), rxBuf)

\* FEHESP32::connectWifiFast, lines 73-101; bssid is NullPtr or 6 bytes
connectWifiFast(D, ssid, password, bssid, channel, rxBuf) ==
    LET ssidLen == StrLen8(ssid)
        passLen == StrLen8(password)
    IN  IF ssidLen > WIFI_FIELD_MAX \/ passLen > WIFI_FIELD_MAX \/ bssid = NullPtr
        THEN Refused(D, << ssidLen, passLen >>)
        ELSE Command(D, CMD_WIFI_CONNECT_FAST,
                     Prefixed(ssidLen) \o Prefixed(passLen) \o bssid \o << channel >>, rxBuf)

\* FEHESP32::connectRCS, lines 103-123; ip is NullPtr or 4 bytes
connectRCS(D, region, ip, teamKey, rxBuf) ==
    IF ip = NullPtr
    THEN Refused(D, << >>)
    ELSE LET keyLen == Min(StrLen8(teamKey), RCS_KEY_MAX)
         IN  Command(D, CMD_RCS_CONNECT, << region >> \o ip \o Prefixed(keyLen), rxBuf)

\* FEHESP32::downloadAndFlash, lines 140-158, with a URL of url characters
downloadAndFlash(D, url, rxBuf) ==
    LET urlLen == StrLen8(url)
    IN  IF urlLen > URL_MAX
        THEN Refused(D, << urlLen >>)
        ELSE Command([D EXCEPT !.link.s_flashing = TRUE,
                               !.link.s_flashComplete = FALSE,
                               !.link.s_flashError = FALSE,
                               !.link.s_flashBytes = U32(0, 0),
                               !.link.s_flashTotal = U32(0, 0)],
                     CMD_DOWNLOAD_AND_FLASH, Prefixed(urlLen), rxBuf)

\* FEHESP32::validatePartition, lines 160-165
validatePartition(D, rxBuf) ==
    Command([D EXCEPT !.link.s_partitionValid = FALSE, !.link.s_validatedPartition = 255],
            CMD_VALIDATE_PARTITION, << >>, rxBuf)

\* FEHESP32::setBootPartition, lines 167-170
setBootPartition(D, partition, rxBuf) ==
    Command(D, CMD_SET_BOOT_PARTITION, << partition >>, rxBuf)

\* FEHESP32::sendBLELog, lines 227-233; msg is NoString or the length of the text
sendBLELog(D, msg, rxBuf) ==
    IF msg = NoString
    THEN Refused(D, << >>)
    ELSE LET len == StrLen8(msg)
         IN  IF len = 0 \/ len > LOG_MAX
             THEN Refused(D, << len >>)
             ELSE Command(D, CMD_BLE_SEND_LOG, Chars(len), rxBuf)

\* FEHESP32::getFlashProgress, lines 255-260: 0, or the quotient of two floats
\* kept as numerator and denominator
getFlashProgress(L) ==
    IF L.s_flashTotal = U32(0, 0)
    THEN [num |-> U32(0, 0), den |-> U32(0, 1)]
    ELSE [num |-> Float32(L.s_flashBytes), den |-> Float32(L.s_flashTotal)]

isConnected(L) == L.s_connected

isFlashComplete(L) == L.s_flashComplete

(* ---------------------------------------------------------------------- *)
(* Inputs: payloads to send, frames the co-processor answers with          *)
(* ---------------------------------------------------------------------- *)
\* n distinct non-zero bytes
Ramp(n) == [i \in 1..n |-> i]

\* A buffer of n bytes that begins with the sync bytes
WithSync(n) ==
    << UPDATER_PROTOCOL_SYNC_BYTE_1, UPDATER_PROTOCOL_SYNC_BYTE_2 >> \o Ramp(n - 2)

PayloadLengths == {0, 1, 2, 41, 42, 44, 45, 50}

Payloads ==
    { Ramp(n) : n \in PayloadLengths }
    \cup { WithSync(n) : n \in {2, 8, 50} }
    \cup { << UPDATER_PROTOCOL_SYNC_BYTE_1 >>, << UPDATER_PROTOCOL_SYNC_BYTE_1, 84, 1 >> }

Commands == {CMD_PING, CMD_BLE_SEND_LOG}

\* A frame as the co-processor builds it
Frame(cmd, len, payload) ==
    InFrame(<< UPDATER_PROTOCOL_SYNC_BYTE_1, UPDATER_PROTOCOL_SYNC_BYTE_2, cmd, len >>
            \o Take(payload, ESP32_TX_BUF_LEN - 4))

\* Nothing queued: all zeros
Silent == Zeros(ESP32_TX_BUF_LEN)

\* Frames without the sync bytes at their start
Garbage ==
    { InFrame(<< UPDATER_PROTOCOL_SYNC_BYTE_1, 84, NOTIFY_WIFI_CONNECTED, 0 >>),
      InFrame(<< 0, UPDATER_PROTOCOL_SYNC_BYTE_2, RSP_ACK, 1, CMD_BLE_SET_NAME >>) }

AckFrame(cmdId) == Frame(RSP_ACK, 1, << cmdId >>)

\* The bytes of a uint32_t in little-endian order
Bytes32(x) ==
    << x.lo % UINT8_MOD, x.lo \div UINT8_MOD, x.hi % UINT8_MOD, x.hi \div UINT8_MOD >>

ProgressFrame(bytes, total) ==
    Frame(NOTIFY_FLASH_PROGRESS, 8, Bytes32(bytes) \o Bytes32(total))

\* (bytes, total) pairs reported while flashing
ProgressValues ==
    { << U32(0, 0), U32(0, 0) >>,
      << U32(0, 300), U32(0, 0) >>,
      << U32(0, 256), U32(16, 1) >>,
      << U32(16, 1), U32(16, 1) >>,
      << U32(256, 1), U32(65535, 65535) >> }

FrameResponses ==
    {Silent} \cup Garbage
    \cup { Frame(RSP_ERROR, n, Ramp(44)) : n \in {0, 41, 42, 44, 45, 255} }
    \cup { AckFrame(CMD_PING) }

WaitResponses ==
    {Silent} \cup Garbage
    \cup { AckFrame(CMD_BLE_SET_NAME), AckFrame(CMD_PING), Frame(RSP_ACK, 0, << >>),
           Frame(NOTIFY_WIFI_CONNECTED, 0, << >>),
           Frame(NOTIFY_WIFI_FAILED, 1, << 3 >>),
           Frame(NOTIFY_WIFI_DISCONNECTED, 0, << >>) }

SilentResponses == {Silent} \cup Garbage

\* What a command sent before a wait is answered with
EarlierResponses ==
    { Silent, AckFrame(CMD_BLE_SET_NAME), Frame(NOTIFY_WIFI_CONNECTED, 0, << >>) }

FlashResponses ==
    {Silent}
    \cup { ProgressFrame(v[1], v[2]) : v \in ProgressValues }
    \cup { Frame(NOTIFY_FLASH_PROGRESS, 4, Bytes32(U32(0, 300))),
           Frame(NOTIFY_FLASH_COMPLETE, 0, << >>),
           Frame(NOTIFY_FLASH_FAILED, 1, << 7 >>) }

\* A pong: version major.minor.patch of the image running from partition
PongFrame(major, minor, patch, partition) ==
    Frame(RSP_PONG, 4, << major, minor, patch, partition >>)

\* One frame of every kind the driver dispatches on, with all of its fixed
\* fields and with a LEN byte one short of them
LinkResponses ==
    { Silent,
      PongFrame(1, 2, 3, 1),
      Frame(RSP_PONG, 3, << 1, 2, 3, 1 >>),
      AckFrame(CMD_BLE_SET_NAME),
      Frame(RSP_ACK, 0, << CMD_BLE_SET_NAME >>),
      Frame(NOTIFY_WIFI_CONNECTED, 0, << >>),
      Frame(NOTIFY_WIFI_DISCONNECTED, 0, << >>),
      ProgressFrame(U32(0, 256), U32(16, 1)),
      Frame(NOTIFY_FLASH_PROGRESS, 7, Bytes32(U32(0, 256)) \o Bytes32(U32(16, 1))),
      Frame(NOTIFY_FLASH_FAILED, 1, << 7 >>),
      Frame(NOTIFY_FLASH_FAILED, 0, << 7 >>),
      Frame(RSP_PARTITION_VALID, 1, << 1 >>),
      Frame(RSP_PARTITION_VALID, 0, << 1 >>),
      Frame(RSP_BLE_STATUS, 1, << BLE_STATE_ADVERTISING >>),
      Frame(RSP_BLE_STATUS, 0, << BLE_STATE_ADVERTISING >>),
      Frame(NOTIFY_BLE_CLIENT_EVENT, 1, << BLE_EVENT_CLIENT_CONNECTED >>),
      Frame(NOTIFY_BLE_CLIENT_EVENT, 1, << BLE_EVENT_CLIENT_DISCONNECTED >>),
      Frame(NOTIFY_BLE_CLIENT_EVENT, 0, << BLE_EVENT_CLIENT_CONNECTED >>),
      Frame(NOTIFY_RCS_CONNECTED, 0, << >>),
      Frame(NOTIFY_RCS_DISCONNECTED, 0, << >>),
      Frame(NOTIFY_RCS_DATA, 5, << 2, 1, 2, 90, 0 >>),
      Frame(NOTIFY_RCS_DATA, 4, << 2, 1, 2, 90, 0 >>) }

\* Values of the LEN byte: none, one, the fixed fields of the RCS record, the
\* most a frame holds, one more, and the largest
LenBytes == { 0, 1, 5, 44, 45, 255 }

\* Frames of the kinds whose handlers use the LEN byte, and of two kinds with
\* fixed fields, with every such LEN byte and a full payload
LenResponses ==
    { Frame(cmd, n, Ramp(ESP32_TX_BUF_LEN - UPDATER_PROTOCOL_HEADER_SIZE)) :
        cmd \in {NOTIFY_DEBUG, NOTIFY_RCS_DATA, RSP_PONG, NOTIFY_FLASH_PROGRESS},
        n \in LenBytes }

\* What the co-processor sends about BLE
BleResponses ==
    { Silent,
      AckFrame(CMD_BLE_SET_NAME),
      Frame(RSP_BLE_STATUS, 1, << BLE_STATE_ADVERTISING >>),
      Frame(RSP_BLE_STATUS, 1, << BLE_STATE_OFF >>),
      Frame(NOTIFY_BLE_CLIENT_EVENT, 1, << BLE_EVENT_CLIENT_CONNECTED >>),
      Frame(NOTIFY_BLE_CLIENT_EVENT, 1, << BLE_EVENT_CLIENT_DISCONNECTED >>) }

\* While the name is being set the co-processor acknowledges it or is silent
NameResponses == { Silent, AckFrame(CMD_BLE_SET_NAME) }

\* Device names given to startBLELog: none (nullptr), empty, short, too long
DeviceNames == { NoString, 0, 20 }

\* Lengths of SSIDs and passwords: empty, the longest allowed, too long, and
\* too long for the 8 bits the length is kept in
FieldLengths == { 0, 16, 17, 272 }

\* Lengths of URLs and of log messages, and no message at all
TextLengths == { 0, 5, 32, 33, 260 }

OTA_WIFI_BSSID_BYTES == << 216, 235, 151, 234, 84, 92 >>

RCS_SERVER_IP_BYTES == << 10, 0, 0, 1 >>

\* What the co-processor answers during the startup update sequence, by the
\* place the sequence is at: the answer to what was asked there, or nothing
SetupResponses(pc) ==
    { Silent } \cup
    CASE pc \in { "ready1", "ready2", "ready3" } ->
             { PongFrame(0, 9, 0, PARTITION_OTA_0), PongFrame(1, 0, 0, PARTITION_OTA_0),
               PongFrame(1, 0, 0, PARTITION_FACTORY) }
      [] pc \in { "wifi1", "wifi2" } ->
             { Frame(NOTIFY_WIFI_CONNECTED, 0, << >>), Frame(NOTIFY_WIFI_FAILED, 0, << >>) }
      [] pc = "flashStart" ->
             { ProgressFrame(U32(0, 256), U32(0, 1024)), Frame(NOTIFY_FLASH_FAILED, 1, << 7 >>) }
      [] pc = "flashing" ->
             { Frame(NOTIFY_FLASH_COMPLETE, 0, << >>), Frame(NOTIFY_FLASH_FAILED, 1, << 7 >>) }
      [] pc = "validate" ->
             { Frame(RSP_PARTITION_VALID, 1, << PARTITION_OTA_0 >>),
               Frame(RSP_PARTITION_VALID, 1, << PARTITION_FACTORY >>) }
      [] pc = "bootAck" -> { AckFrame(CMD_SET_BOOT_PARTITION) }
      [] OTHER -> { }

\* The command ids waited for, the timeouts in milliseconds, the clock at start
WaitedCommands == {CMD_BLE_SET_NAME, 0}

Timeouts == {U32(0, 0), U32(0, 15)}

MillisStarts == {U32(0, 0), U32(65535, 65530)}

(* ---------------------------------------------------------------------- *)
(* Initial state: empty queue, timer never started, driver not initialized *)
(* ---------------------------------------------------------------------- *)
NoCall == [op |-> "none", ret |-> TRUE, cmd |-> 0, data |-> << >>, n |-> 0, args |-> << >>]

\* No blocking wait is in progress
NoWait ==
    [pc |-> "idle", kind |-> "none", cmdId |-> 0,
     timeoutMs |-> U32(0, 0), startTime |-> U32(0, 0), polls |-> 0]

\* No startup sequence and no driver function with a wait inside is running;
\* the locals of setup() at their initial values
NoCaller ==
    [pc |-> "idle", needUpdate |-> FALSE, runningAppPartition |-> TRUE,
     networkAvailable |-> FALSE, validated |-> FALSE, ready |-> FALSE,
     t0 |-> U32(0, 0), polls |-> 0]

\* The board when the program runs: the motors awake and stopped, the
\* low-battery LED off, interrupts enabled, nothing on the kill screen; the
\* fault lines and the battery as they were read last
BoardDefaults ==
    [MOTOR_nSLEEP |-> TRUE, pwm |-> 0, BATT_LOW_LED |-> FALSE, interrupts |-> TRUE,
     reason |-> "none", i2cFault |-> FALSE, ioFault |-> FALSE, adc |-> ADC_MAX]

\* The driver before FEHESP32::init, the clock at now
DriverInit(now) ==
    /\ esp32 = Esp32Defaults
    /\ link = LinkDefaults
    /\ millis = now
    /\ wait = NoWait
    /\ done = NoCall
    /\ caller = NoCaller
    /\ g_esp32PollPending = FALSE
    /\ board = BoardDefaults

SchedulerInit ==
    /\ eventData = << >>
    /\ numEventsPending = 0
    /\ OCR4A = 0
    /\ TCNT4 = 0
    /\ TCCR4B = FALSE
    /\ TIMSK4 = FALSE
    /\ TIFR4 = FALSE
    /\ inISR = FALSE
    /\ mainPc = "idle"
    /\ arg = NoArg
    /\ outOfBounds = FALSE
    /\ calls = 0
    /\ last = NoOp

Init == SchedulerInit /\ DriverInit(U32(0, 0))

\* The same, at any of the clock values the driver is started at
InitAnyTime == SchedulerInit /\ \E now \in MillisStarts : DriverInit(now)

\* The interrupt is taken before the next normal-context instruction
InterruptPending == TIFR4 /\ TIMSK4 /\ ~inISR

NormalContext == ~inISR /\ ~InterruptPending /\ ~outOfBounds

(* ---------------------------------------------------------------------- *)
(* Normal-context scheduleEvent, in two steps: lines 77-93, lines 95-140   *)
(* ---------------------------------------------------------------------- *)
ScheduleCheck(cb, d, maxCalls) ==
    /\ NormalContext
    /\ mainPc = "idle"
    /\ calls < maxCalls
    /\ calls' = calls + 1
    /\ IF QueueFull(numEventsPending)
       THEN /\ last' = Did("scheduleEvent", cb, d, 0, FALSE)
            /\ UNCHANGED << mainPc, arg >>
       ELSE /\ mainPc' = "checked"
            /\ arg' = [callback |-> cb, ticks |-> CompensateTicks(d), req |-> d]
            /\ last' = Did("check", cb, d, 0, TRUE)
    /\ UNCHANGED << eventData, numEventsPending, OCR4A, TCNT4, TCCR4B, TIMSK4, TIFR4,
                    inISR, outOfBounds >>
    /\ UNCHANGED driverVars

ScheduleInsert ==
    /\ NormalContext
    /\ mainPc = "checked"
    /\ LET S2 == scheduleEventInsert(Sched, arg.callback, arg.ticks, arg.req)
       IN  /\ SetSched(S2)
           /\ last' = [Did("scheduleEvent", arg.callback, arg.req, 0, TRUE)
                         EXCEPT !.clamped = S2.clamp]
    /\ mainPc' = "idle"
    /\ arg' = NoArg
    /\ UNCHANGED << inISR, calls >>
    /\ UNCHANGED driverVars

CancelEvents(cb) ==
    /\ NormalContext
    /\ mainPc = "idle"
    /\ calls < MaxCalls
    /\ calls' = calls + 1
    /\ LET S2 == cancelEvents(Sched, cb)
       IN  /\ SetSched(S2)
           /\ last' = [Did("cancelEvents", cb, 0, 0, TRUE)
                         EXCEPT !.clamped = S2.clamp, !.removed = S2.removed]
    /\ UNCHANGED << inISR, mainPc, arg >>
    /\ UNCHANGED driverVars

(* ---------------------------------------------------------------------- *)
(* Normal-context scheduleEvent and cancelEvents, statement by statement:   *)
(* timer stop (lines 96, 190), queue edit (lines 98-135, 192-229), timer    *)
(* restart (lines 138, 232)                                                 *)
(* ---------------------------------------------------------------------- *)
\* mainPc between the timer stop and the timer restart
StoppedWindow == {"stopped", "edited", "cancelStopped", "cancelEdited"}

\* Line 96: scheduleEvent stops the timer
ScheduleStop ==
    /\ NormalContext
    /\ mainPc = "checked"
    /\ SetSched(schedulerTimerDisable(Sched))
    /\ mainPc' = "stopped"
    /\ last' = Did("stop", arg.callback, arg.req, 0, TRUE)
    /\ UNCHANGED << inISR, arg, calls >>
    /\ UNCHANGED driverVars

\* Lines 98-135: elapsed ticks subtracted, entry inserted, count incremented
ScheduleEdit ==
    /\ NormalContext
    /\ mainPc = "stopped"
    /\ LET S2 == scheduleEventInsert(Sched, arg.callback, arg.ticks, arg.req)
       IN  /\ SetSched([Sched EXCEPT !.q = S2.q, !.n = S2.n, !.oob = S2.oob])
           /\ last' = [Did("edit", arg.callback, arg.req, 0, TRUE)
                         EXCEPT !.clamped = S2.clamp]
    /\ mainPc' = "edited"
    /\ UNCHANGED << inISR, arg, calls >>
    /\ UNCHANGED driverVars

\* Line 190: cancelEvents stops the timer
CancelStop(cb) ==
    /\ NormalContext
    /\ mainPc = "idle"
    /\ calls < MaxStepCalls
    /\ calls' = calls + 1
    /\ SetSched(schedulerTimerDisable(Sched))
    /\ mainPc' = "cancelStopped"
    /\ arg' = [callback |-> cb, ticks |-> 0, req |-> 0]
    /\ last' = Did("stop", cb, 0, 0, TRUE)
    /\ UNCHANGED << inISR >>
    /\ UNCHANGED driverVars

\* Lines 192-229: elapsed ticks subtracted, entries of the callback removed
CancelEdit ==
    /\ NormalContext
    /\ mainPc = "cancelStopped"
    /\ LET S2 == cancelEvents(Sched, arg.callback)
       IN  /\ SetSched([Sched EXCEPT !.q = S2.q, !.n = S2.n])
           /\ last' = [Did("edit", arg.callback, 0, 0, TRUE)
                         EXCEPT !.clamped = S2.clamp, !.removed = S2.removed]
    /\ mainPc' = "cancelEdited"
    /\ UNCHANGED << inISR, arg, calls >>
    /\ UNCHANGED driverVars

\* Lines 138-140 and 232: the timer is set up again and the call returns
RestartTimer ==
    /\ NormalContext
    /\ mainPc \in {"edited", "cancelEdited"}
    /\ SetSched(schedulerTimerSetup(Sched))
    /\ last' = Did(IF mainPc = "edited" THEN "scheduleEvent" ELSE "cancelEvents",
                   arg.callback, arg.req, 0, TRUE)
    /\ mainPc' = "idle"
    /\ arg' = NoArg
    /\ UNCHANGED << inISR, calls >>
    /\ UNCHANGED driverVars

(* ---------------------------------------------------------------------- *)
(* Timer 4                                                                 *)
(* ---------------------------------------------------------------------- *)
\* Ticks until the counter hits OCR4A
TicksToMatch == IF OCR4A > TCNT4 THEN OCR4A - TCNT4 ELSE 1

Older(q, k) == [i \in DOMAIN q |-> [q[i] EXCEPT !.age = @ + k]]

\* k ticks pass while normal-context code runs
TimerTick(k) ==
    /\ ~inISR /\ ~InterruptPending /\ ~outOfBounds
    /\ TCCR4B
    /\ k \in 1..TicksToMatch
    /\ \/ k = TicksToMatch
       \/ k = 1 /\ TCNT4 < MaxElapsed /\ mainPc = "idle"
    /\ IF k = TicksToMatch
       THEN TCNT4' = 0 /\ TIFR4' = TRUE
       ELSE TCNT4' = TCNT4 + k /\ TIFR4' = TIFR4
    /\ eventData' = Older(eventData, k)
    /\ last' = Did("tick", "none", 0, k, TRUE)
    /\ UNCHANGED << numEventsPending, OCR4A, TCCR4B, TIMSK4, inISR, mainPc, arg,
                    outOfBounds, calls >>

\* k ticks of the timer pass, the driver at rest
Tick(k) == TimerTick(k) /\ UNCHANGED driverVars

\* The counter runs up to the compare value and millis() counts the time
\* this takes, 64 microseconds a tick; the run is followed for MaxHealthMs
TickToMatch ==
    /\ Less32(millis, U32(0, MaxHealthMs))
    /\ TimerTick(TicksToMatch)
    /\ millis' = Add32(millis, (TicksToMatch * TICK_US) \div 1000)
    /\ UNCHANGED << esp32, link, wait, done, caller, g_esp32PollPending, board >>

\* A tick passes while the handler runs (a slow callback).  The handler is
\* taken to return before the counter hits OCR4A a second time.
IsrTick ==
    /\ inISR /\ ~outOfBounds
    /\ TCCR4B
    /\ TCNT4 < MaxIsrTicks
    /\ TCNT4 + 1 < OCR4A
    /\ TCNT4' = TCNT4 + 1
    /\ eventData' = Older(eventData, 1)
    /\ last' = Did("isrTick", "none", 0, 1, TRUE)
    /\ UNCHANGED << numEventsPending, OCR4A, TCCR4B, TIMSK4, TIFR4, inISR, mainPc, arg,
                    outOfBounds, calls >>
    /\ UNCHANGED driverVars

(* ---------------------------------------------------------------------- *)
(* ISR(TIMER4_COMPA_vect)                                                  *)
(* ---------------------------------------------------------------------- *)
\* Lines 147-160: entry, and the elapsed interval subtracted from every entry
IsrEnter ==
    /\ InterruptPending /\ ~outOfBounds
    /\ inISR' = TRUE
    /\ TIFR4' = FALSE
    /\ eventData' = SubtractElapsed(eventData, OCR4A)
    /\ last' = [Did("isrEnter", "none", 0, OCR4A, TRUE)
                  EXCEPT !.clamped = Clamps(eventData, OCR4A)]
    /\ UNCHANGED << numEventsPending, OCR4A, TCNT4, TCCR4B, TIMSK4, mainPc, arg,
                    outOfBounds, calls >>
    /\ UNCHANGED driverVars

\* Line 163: the loop condition
EventDue(S) == S.n > 0 /\ S.q[1].ticks = 0

\* Lines 165-176: remove the first event
\* A removal that takes the last entry out instead of the first
RemoveFirst_Last(S) == [S EXCEPT !.q = SubSeq(S.q, 1, S.n - 1), !.n = S.n - 1]

RemoveFirst(S) == [S EXCEPT !.q = Tail(S.q), !.n = S.n - 1]

\* The dispatch loop not stopped by the halt
Running_AfterHalt == TRUE

\* _kill (FEHInternal.cpp lines 744-776) has not stopped the program
Running == caller.pc # "killed"

\* k ticks pass while the handler waits, the counter starting again from 0
\* at each compare match
Elapse(S, k) ==
    IF ~S.cs THEN S
    ELSE LET period == IF S.ocr > 0 THEN S.ocr ELSE 1
         IN  [S EXCEPT !.tcnt = (S.tcnt + k) % period,
                       !.flag = S.flag \/ (S.tcnt + k >= period),
                       !.q = Older(S.q, k)]

\* The scheduler calls of the warning tone in _killNoScreen (FEHInternal.cpp
\* lines 781-789): Tone, Sleep(10), Tone, Sleep(10), Off, where Tone and Off
\* begin with cancelEvents(buzzerOff) (FEHBuzzer.cpp lines 35 and 127); each
\* Sleep lets k ticks pass
KillTone(S, k) ==
    LET S1 == cancelEvents(S, "buzzerOff")
        S2 == cancelEvents(Elapse(S1, k), "buzzerOff")
    IN  cancelEvents(Elapse(S2, k), "buzzerOff")

\* Ticks that pass in a Sleep(10) with interrupts disabled: delay() counts
\* on micros(), which stops following the clock after one overflow of its
\* timer (1 ms), so between 1 ms and the 10 ms asked for
KillToneTicks == { 1000 \div TICK_US, (KILL_TONE_MS * 1000) \div TICK_US }

\* Lines 163-180: one turn of the dispatch loop; eventESP32Poll
\* (FEHInternal.cpp lines 86-93) sets the poll-pending flag
IsrDispatch ==
    /\ inISR /\ ~outOfBounds
    /\ Running
    /\ EventDue(Sched)
    /\ eventData[1].callback # "eventHealthCheck"
    /\ LET e == eventData[1]
           S2 == RunCalls(RemoveFirst(Sched), CallbackBody(e.callback))
       IN  /\ SetSched(S2)
           /\ last' = [Did("dispatch", e.callback, e.req, e.age, TRUE)
                         EXCEPT !.clamped = S2.clamp, !.removed = S2.removed]
           /\ g_esp32PollPending' = (g_esp32PollPending \/ e.callback = "eventESP32Poll")
    /\ UNCHANGED << inISR, mainPc, arg, calls >>
    /\ UNCHANGED << esp32, link, millis, wait, done, caller, board >>

\* FEHESP32::servicePoll, lines 39-46: the pending poll is made, the
\* co-processor answering rxBuf
servicePoll(D, pending, rxBuf) == IF pending THEN poll(D, rxBuf) ELSE D

\* The product of an ADC reading and (float)(15.0 / 1023.0), whose
\* significand is BATTERY_SCALE, in units of 2^-30 volt: 16-bit lo, the rest hi
ScaledReading(adc) ==
    LET lo == adc * (BATTERY_SCALE % UINT16_MOD)
    IN  U32(adc * (BATTERY_SCALE \div UINT16_MOD) + lo \div UINT16_MOD, lo % UINT16_MOD)

\* The unit in the last place of the float nearest to x, x below 2^34
ProductUlp(x) ==
    IF x.hi < 256 THEN 1
    ELSE CHOOSE u \in {2, 4, 8, 16, 32, 64, 128, 256, 512, 1024} :
             128 * u <= x.hi /\ x.hi < 256 * u

\* A float product cut off at its 24-bit significand
RoundProduct_Truncated(x) ==
    U32(x.hi, (x.lo \div ProductUlp(x)) * ProductUlp(x))

\* The float product: the 24-bit significand rounds to nearest, ties to even
RoundProduct(x) ==
    LET u  == ProductUlp(x)
        q  == x.lo \div u
        r  == x.lo % u
        up == 2 * r > u \/ (2 * r = u /\ q % 2 = 1)
        l  == IF up THEN (q + 1) * u ELSE q * u
    IN  IF l = UINT16_MOD THEN U32(x.hi + 1, 0) ELSE U32(x.hi, l)

\* _batteryVoltage, FEHInternal.cpp lines 809-816: analogRead(BATTERY_PIN) *
\* (15.0 / 1023.0) in float arithmetic, in units of 2^-30 volt
batteryVoltage(adc) == RoundProduct(ScaledReading(adc))

\* LOW_BATTERY_THRESHOLD in units of 2^-30 volt: 10 * 2^14 * 2^16
Threshold == U32(LOW_BATTERY_THRESHOLD * 16384, 0)

\* The fault lines and the battery as the health check read them
Sampled(i2cFault, ioFault, adc) ==
    [board EXCEPT !.i2cFault = i2cFault, !.ioFault = ioFault, !.adc = adc]

\* One turn of the dispatch loop with eventHealthCheck (FEHInternal.cpp lines
\* 95-135) as the callback, the fault lines reading i2cFault and ioFault and
\* the battery pin reading adc.
\* Both faults: _softwareReset, the watchdog restarts the program. One fault:
\* _kill, which calls _killNoScreen(false) with tone = true (lines 778-803):
\* Sleep(10) twice, each a servicePoll() and a delay, the motors put to sleep
\* and stopped, cli(), then the reason on the screen and the program stops
\* with interrupts disabled. No fault: the low-battery LED is set and the
\* check is scheduled again.
IsrDispatchHealthCheck(i2cFault, ioFault, adc, rxBuf) ==
    /\ inISR /\ ~outOfBounds
    /\ Running
    /\ EventDue(Sched)
    /\ eventData[1].callback = "eventHealthCheck"
    /\ LET e == eventData[1]
       IN  IF i2cFault /\ ioFault
           THEN /\ SetSched([q |-> << >>, n |-> 0, ocr |-> 0, tcnt |-> 0, cs |-> FALSE,
                             ie |-> FALSE, flag |-> FALSE, oob |-> FALSE,
                             clamp |-> FALSE, removed |-> 0])
                /\ inISR' = FALSE
                /\ mainPc' = "idle"
                /\ arg' = NoArg
                /\ calls' = 0
                /\ last' = NoOp
                /\ esp32' = Esp32Defaults
                /\ link' = LinkDefaults
                /\ millis' = U32(0, 0)
                /\ wait' = NoWait
                /\ done' = NoCall
                /\ caller' = NoCaller
                /\ g_esp32PollPending' = FALSE
                /\ board' = [BoardDefaults EXCEPT !.i2cFault = i2cFault,
                                                  !.ioFault = ioFault, !.adc = adc]
           ELSE IF i2cFault \/ ioFault
           THEN /\ \E k \in KillToneTicks : SetSched(KillTone(RemoveFirst(Sched), k))
                /\ LET D == servicePoll([esp32 |-> esp32, link |-> link],
                                        g_esp32PollPending, rxBuf)
                   IN  esp32' = D.esp32 /\ link' = D.link
                /\ g_esp32PollPending' = FALSE
                /\ caller' = [caller EXCEPT !.pc = "killed"]
                /\ board' = [Sampled(i2cFault, ioFault, adc)
                               EXCEPT !.MOTOR_nSLEEP = FALSE,
                                      !.pwm = 0,
                                      !.interrupts = FALSE,
                                      !.reason = IF i2cFault THEN "I2C fault" ELSE "IO fault"]
                /\ last' = Did("kill", e.callback, e.req, e.age, TRUE)
                /\ UNCHANGED << inISR, mainPc, arg, calls, millis, wait, done >>
           ELSE LET S2 == RunCalls(RemoveFirst(Sched), CallbackBody(e.callback))
                IN  /\ SetSched(S2)
                    /\ last' = [Did("dispatch", e.callback, e.req, e.age, TRUE)
                                  EXCEPT !.clamped = S2.clamp, !.removed = S2.removed]
                    /\ board' = [Sampled(i2cFault, ioFault, adc)
                                   EXCEPT !.BATT_LOW_LED =
                                       Less32(batteryVoltage(adc), Threshold)]
                    /\ UNCHANGED << inISR, mainPc, arg, calls >>
                    /\ UNCHANGED << esp32, link, millis, wait, done, caller,
                                    g_esp32PollPending >>

\* Line 183: the timer is set up again and the handler returns
IsrExit ==
    /\ inISR /\ ~outOfBounds
    /\ Running
    /\ ~EventDue(Sched)
    /\ SetSched(schedulerTimerSetup(Sched))
    /\ inISR' = FALSE
    /\ last' = Did("isrExit", "none", 0, 0, TRUE)
    /\ UNCHANGED << mainPc, arg, calls >>
    /\ UNCHANGED driverVars

(* ---------------------------------------------------------------------- *)
(* The co-processor driver: calls made from normal context                 *)
(* ---------------------------------------------------------------------- *)
Drv == [esp32 |-> esp32, link |-> link]

SetDrv(D) == esp32' = D.esp32 /\ link' = D.link

\* The record of a driver call: its name, arguments and return value, and
\* the number of driver calls made so far
Called(op, ret, cmd, data) ==
    [op |-> op, ret |-> ret, cmd |-> cmd, data |-> data, n |-> done.n + 1, args |-> << >>]

\* The same, with the arguments the caller gave
CalledWith(op, ret, cmd, data, args) == [Called(op, ret, cmd, data) EXCEPT !.args = args]

DriverIdle(maxCalls) == wait.pc = "idle" /\ caller.pc = "idle" /\ done.n < maxCalls

\* FEHESP32::init, lines 22-25, and ESP32::init, lines 13-29
FEHESP32Init(maxCalls) ==
    /\ DriverIdle(maxCalls)
    /\ esp32' = [esp32 EXCEPT !.s_isInitialized = TRUE, !.s_rxCallback = "handleMessage"]
    /\ done' = Called("init", TRUE, 0, << >>)
    /\ UNCHANGED << link, millis, wait >>
    /\ UNCHANGED schedVars
    /\ UNCHANGED callerVars

\* ESP32::sendCommand(cmd, data, Len(data)), the co-processor answering rxBuf
SendCommand(cmd, data, rxBuf, maxCalls) ==
    /\ DriverIdle(maxCalls)
    /\ LET r == sendCommand(Drv, cmd, data, rxBuf)
       IN  /\ SetDrv(r.D)
           /\ done' = Called("sendCommand", r.ret, cmd, data)
    /\ UNCHANGED << millis, wait >>
    /\ UNCHANGED schedVars
    /\ UNCHANGED callerVars

\* FEHESP32::poll, lines 32-35
Poll(rxBuf, maxCalls) ==
    /\ DriverIdle(maxCalls)
    /\ SetDrv(poll(Drv, rxBuf))
    /\ done' = Called("poll", TRUE, 0, << >>)
    /\ UNCHANGED << millis, wait >>
    /\ UNCHANGED schedVars
    /\ UNCHANGED callerVars

\* FEHESP32::setRCSCallback(handleRCSData), lines 130-133, as FEHRCS calls it
\* (part_007 line 333)
SetRCSCallback(maxCalls) ==
    /\ DriverIdle(maxCalls)
    /\ link' = [link EXCEPT !.s_rcsCallback = "handleRCSData"]
    /\ done' = Called("setRCSCallback", TRUE, 0, << >>)
    /\ UNCHANGED << esp32, millis, wait >>
    /\ UNCHANGED schedVars
    /\ UNCHANGED callerVars

\* FEHESP32::downloadAndFlash, lines 140-158, with a URL of urlLen characters
DownloadAndFlash(urlLen, rxBuf, maxCalls) ==
    /\ DriverIdle(maxCalls)
    /\ LET r == downloadAndFlash(Drv, urlLen, rxBuf)
       IN  /\ SetDrv(r.D)
           /\ done' = CalledWith("downloadAndFlash", r.ret, CMD_DOWNLOAD_AND_FLASH, r.data,
                                 << urlLen >>)
    /\ UNCHANGED << millis, wait >>
    /\ UNCHANGED schedVars
    /\ UNCHANGED callerVars

\* The driver command op called with args, the co-processor answering rxBuf
DriverCommand(op, args, r, maxCalls) ==
    /\ DriverIdle(maxCalls)
    /\ SetDrv(r.D)
    /\ done' = CalledWith(op, r.ret, r.cmd, r.data, args)
    /\ UNCHANGED << millis, wait >>
    /\ UNCHANGED schedVars
    /\ UNCHANGED callerVars

ConnectWifi(ssid, password, rxBuf, maxCalls) ==
    DriverCommand("connectWifi", << ssid, password >>,
                  connectWifi(Drv, ssid, password, rxBuf), maxCalls)

ConnectWifiFast(ssid, password, bssid, rxBuf, maxCalls) ==
    DriverCommand("connectWifiFast", << ssid, password, Len(bssid) >>,
                  connectWifiFast(Drv, ssid, password, bssid, OTA_WIFI_CHANNEL, rxBuf), maxCalls)

ConnectRCS(ip, teamKey, rxBuf, maxCalls) ==
    DriverCommand("connectRCS", << Len(ip), teamKey >>,
                  connectRCS(Drv, 65, ip, teamKey, rxBuf), maxCalls)

SendBLELog(msg, rxBuf, maxCalls) ==
    DriverCommand("sendBLELog", << msg >>, sendBLELog(Drv, msg, rxBuf), maxCalls)

\* FEHESP32::reset, lines 174-187: the session state after a reset
reset(L) ==
    [L EXCEPT !.s_version = LinkDefaults.s_version,
              !.s_connected = FALSE,
              !.s_flashing = FALSE,
              !.s_flashComplete = FALSE,
              !.s_flashError = FALSE,
              !.s_partitionValid = FALSE,
              !.s_validatedPartition = 255,
              !.s_lastAckedCmd = 0,
              !.s_wifiConnectResult = FALSE,
              !.s_wifiConnectSuccess = FALSE,
              !.s_rcsConnected = FALSE,
              !.s_bleState = BLE_STATE_OFF]

\* FEHESP32::reset, lines 172-188; ESP32::reset takes 100 ms + 1500 ms
Reset(maxCalls) ==
    /\ DriverIdle(maxCalls)
    /\ link' = reset(link)
    /\ millis' = Add32(millis, RESET_MS)
    /\ done' = Called("reset", TRUE, 0, << >>)
    /\ UNCHANGED << esp32, wait >>
    /\ UNCHANGED schedVars
    /\ UNCHANGED callerVars

\* FEHESP32::startBLELog, lines 190-215, up to its return or to the wait for
\* the acknowledgement of the name; nameLen is strlen(deviceName)
StartBLELog(nameLen, rxBuf, maxCalls) ==
    /\ DriverIdle(maxCalls)
    /\ IF nameLen = NoString \/ nameLen = 0
       THEN LET r == sendCommand(Drv, CMD_BLE_START, << >>, rxBuf)
            IN  /\ SetDrv(r.D)
                /\ millis' = Add32(millis, BLE_START_DELAY_MS)
                /\ done' = Called("startBLELog", r.ret, CMD_BLE_START, << >>)
                /\ UNCHANGED << wait, caller >>
       ELSE LET n == Min(nameLen % UINT8_MOD, BLE_NAME_MAX)
                r == sendCommand(Drv, CMD_BLE_SET_NAME, << n >> \o Chars(n), rxBuf)
            IN  IF ~r.ret
                THEN /\ SetDrv(r.D)
                     /\ done' = Called("startBLELog", FALSE, CMD_BLE_SET_NAME, << n >> \o Chars(n))
                     /\ UNCHANGED << millis, wait, caller >>
                ELSE /\ esp32' = r.D.esp32
                     /\ link' = [r.D.link EXCEPT !.s_lastAckedCmd = 0]
                     /\ wait' = [pc |-> "test", kind |-> "ack", cmdId |-> CMD_BLE_SET_NAME,
                                 timeoutMs |-> U32(0, BLE_NAME_ACK_TIMEOUT_MS),
                                 startTime |-> millis, polls |-> 0]
                     /\ caller' = [caller EXCEPT !.pc = "startBLELog"]
                     /\ done' = Called("enter", TRUE, CMD_BLE_SET_NAME, << n >> \o Chars(n))
                     /\ UNCHANGED millis
    /\ UNCHANGED << g_esp32PollPending, board >>
    /\ UNCHANGED schedVars

\* Lines 206-214: the wait for the acknowledgement has returned
StartBLELogResume(rxBuf) ==
    /\ caller.pc = "startBLELog"
    /\ wait.pc = "idle"
    /\ caller' = [caller EXCEPT !.pc = "idle"]
    /\ IF ~done.ret
       THEN /\ done' = [done EXCEPT !.op = "startBLELog", !.ret = FALSE]
            /\ UNCHANGED << esp32, link, millis >>
       ELSE LET r == sendCommand(Drv, CMD_BLE_START, << >>, rxBuf)
            IN  /\ SetDrv(r.D)
                /\ millis' = Add32(millis, BLE_START_DELAY_MS)
                /\ done' = [done EXCEPT !.op = "startBLELog", !.ret = r.ret,
                                        !.cmd = CMD_BLE_START, !.data = << >>]
    /\ UNCHANGED << wait, g_esp32PollPending, board >>
    /\ UNCHANGED schedVars

\* FEHESP32::stopBLELog, lines 217-220
StopBLELog(rxBuf, maxCalls) ==
    /\ DriverIdle(maxCalls)
    /\ LET r == sendCommand(Drv, CMD_BLE_STOP, << >>, rxBuf)
       IN  /\ SetDrv(r.D)
           /\ done' = Called("stopBLELog", r.ret, CMD_BLE_STOP, << >>)
    /\ UNCHANGED << millis, wait >>
    /\ UNCHANGED schedVars
    /\ UNCHANGED callerVars

(* ---------------------------------------------------------------------- *)
(* FEHESP32::waitForAck, lines 292-308, and waitForWifiConnect, 310-327     *)
(* ---------------------------------------------------------------------- *)
\* Lines 295-297: the last acked command is reset, the start time is taken
WaitForAck(cmdId, timeoutMs, maxCalls) ==
    /\ DriverIdle(maxCalls)
    /\ link' = [link EXCEPT !.s_lastAckedCmd = 0]
    /\ wait' = [pc |-> "test", kind |-> "ack", cmdId |-> cmdId,
                timeoutMs |-> timeoutMs, startTime |-> millis, polls |-> 0]
    /\ done' = Called("enter", TRUE, cmdId, << >>)
    /\ UNCHANGED << esp32, millis >>
    /\ UNCHANGED schedVars
    /\ UNCHANGED callerVars

\* Lines 313-316: the WiFi result is reset, the start time is taken
WaitForWifiConnect(timeoutMs, maxCalls) ==
    /\ DriverIdle(maxCalls)
    /\ link' = [link EXCEPT !.s_wifiConnectResult = FALSE, !.s_wifiConnectSuccess = FALSE]
    /\ wait' = [pc |-> "test", kind |-> "wifi", cmdId |-> 0,
                timeoutMs |-> timeoutMs, startTime |-> millis, polls |-> 0]
    /\ done' = Called("enter", TRUE, 0, << >>)
    /\ UNCHANGED << esp32, millis >>
    /\ UNCHANGED schedVars
    /\ UNCHANGED callerVars

\* The name of the wait in progress
WaitName == IF wait.kind = "ack" THEN "waitForAck" ELSE "waitForWifiConnect"

\* The wait in progress returns ret after polls polls
Returned(ret, polls) ==
    /\ wait' = [NoWait EXCEPT !.polls = polls]
    /\ done' = [done EXCEPT !.op = WaitName, !.ret = ret, !.cmd = wait.cmdId]

\* Lines 298 and 317: while (millis() - startTime < timeoutMs); lines 307, 326
WaitTest ==
    /\ wait.pc = "test"
    /\ IF Less32(Sub32(millis, wait.startTime), wait.timeoutMs)
       THEN /\ wait' = [wait EXCEPT !.pc = "poll"]
            /\ done' = [done EXCEPT !.op = "test"]
       ELSE Returned(FALSE, wait.polls)
    /\ UNCHANGED << esp32, link, millis >>
    /\ UNCHANGED schedVars
    /\ UNCHANGED callerVars

\* A poll of the wait that does not look at the WiFi result it dispatched
WaitPoll_KeepsWaiting(rxBuf, ms) ==
    /\ wait.pc = "poll"
    /\ LET D == poll(Drv, rxBuf)
       IN  /\ SetDrv(D)
           /\ IF wait.kind = "ack" /\ D.link.s_lastAckedCmd = wait.cmdId
              THEN Returned(TRUE, wait.polls + 1)
              ELSE /\ wait' = [wait EXCEPT !.pc = "delay", !.polls = @ + 1]
                   /\ done' = [done EXCEPT !.op = "polled"]
    /\ millis' = Add32(millis, ms)
    /\ UNCHANGED schedVars
    /\ UNCHANGED callerVars

\* Lines 300-304 and 319-323: poll(), then the test of what it dispatched.
\* The transfer takes ms milliseconds.
WaitPoll(rxBuf, ms) ==
    /\ wait.pc = "poll"
    /\ LET D == poll(Drv, rxBuf)
       IN  /\ SetDrv(D)
           /\ IF wait.kind = "ack" /\ D.link.s_lastAckedCmd = wait.cmdId
              THEN Returned(TRUE, wait.polls + 1)
              ELSE IF wait.kind = "wifi" /\ D.link.s_wifiConnectResult
              THEN Returned(D.link.s_wifiConnectSuccess, wait.polls + 1)
              ELSE /\ wait' = [wait EXCEPT !.pc = "delay", !.polls = @ + 1]
                   /\ done' = [done EXCEPT !.op = "polled"]
    /\ millis' = Add32(millis, ms)
    /\ UNCHANGED schedVars
    /\ UNCHANGED callerVars

\* Lines 305 and 324: delay(10)
WaitDelay ==
    /\ wait.pc = "delay"
    /\ millis' = Add32(millis, WAIT_DELAY_MS)
    /\ wait' = [wait EXCEPT !.pc = "test"]
    /\ done' = [done EXCEPT !.op = "delay"]
    /\ UNCHANGED << esp32, link >>
    /\ UNCHANGED schedVars
    /\ UNCHANGED callerVars

(* ---------------------------------------------------------------------- *)
(* setup(), FEHInternal.cpp lines 260-444: the co-processor's firmware is   *)
(* verified and updated. caller.pc is the place the sequence is at.         *)
(* ---------------------------------------------------------------------- *)
\* Lines 273-275: the reported version is older than the expected one
Outdated(ver) ==
    \/ ver.major < EXPECTED_ESP_FIRMWARE_VERSION_MAJOR
    \/ /\ ver.major = EXPECTED_ESP_FIRMWARE_VERSION_MAJOR
       /\ ver.minor < EXPECTED_ESP_FIRMWARE_VERSION_MINOR
    \/ /\ ver.major = EXPECTED_ESP_FIRMWARE_VERSION_MAJOR
       /\ ver.minor = EXPECTED_ESP_FIRMWARE_VERSION_MINOR
       /\ ver.patch < EXPECTED_ESP_FIRMWARE_VERSION_PATCH

\* The caller at pc with a loop starting now
At(pc, now) == [caller EXCEPT !.pc = pc, !.t0 = now, !.polls = 0]

\* waitForWifiConnect or waitForAck entered at now
Entered(kind, cmdId, timeoutMs, now) ==
    [pc |-> "test", kind |-> kind, cmdId |-> cmdId,
     timeoutMs |-> U32(0, timeoutMs), startTime |-> now, polls |-> 0]

\* One step of the sequence inside setup's own code
SetupStep(op) == done' = [done EXCEPT !.op = op, !.n = @ + 1]

\* Lines 260-265: FEHESP32::init(), begin(), the first waitForESP32Ready begins
SetupBegin ==
    /\ caller.pc = "idle"
    /\ wait.pc = "idle"
    /\ done = NoCall
    /\ esp32' = [esp32 EXCEPT !.s_isInitialized = TRUE, !.s_rxCallback = "handleMessage"]
    /\ caller' = At("ready1", millis)
    /\ SetupStep("setup")
    /\ UNCHANGED << link, millis, wait, g_esp32PollPending, board >>
    /\ UNCHANGED schedVars

ReadyTimeout == IF caller.pc = "ready1" THEN READY_FIRST_TIMEOUT_MS ELSE READY_TIMEOUT_MS

\* The place setup() goes on at when waitForESP32Ready returns ready at now;
\* lines 438-444 after the last one
ReadyReturns(ready, now) ==
    IF caller.pc = "ready1" THEN [At("verify", now) EXCEPT !.ready = ready]
    ELSE IF caller.pc = "ready2" THEN At("updater", now)
    ELSE At("done", now)

\* waitForESP32Ready, lines 1007-1030: the test of the timeout, then one
\* iteration: poll(), ping(), the test of the version, delay(10)
ReadyStep(rxBuf) ==
    /\ caller.pc \in { "ready1", "ready2", "ready3" }
    /\ IF Less32(Sub32(millis, caller.t0), U32(0, ReadyTimeout))
       THEN LET r == ping(poll(Drv, Silent), rxBuf)
                ver == r.D.link.s_version
            IN  /\ SetDrv(r.D)
                /\ done' = Called("ping", r.ret, CMD_PING, << >>)
                /\ IF ver.major # 0 \/ ver.minor # 0 \/ ver.patch # 0
                   THEN LET now == IF caller.pc = "ready3"
                                   THEN Add32(millis, STATUS_DELAY_MS) ELSE millis
                        IN  millis' = now /\ caller' = ReadyReturns(TRUE, now)
                   ELSE /\ millis' = Add32(millis, READY_DELAY_MS)
                        /\ caller' = [caller EXCEPT !.polls = @ + 1]
       ELSE LET now == IF caller.pc = "ready3"
                       THEN Add32(millis, STATUS_DELAY_MS) ELSE millis
            IN  /\ millis' = now
                /\ caller' = ReadyReturns(FALSE, now)
                /\ SetupStep("notReady")
                /\ UNCHANGED << esp32, link >>
    /\ UNCHANGED << wait, g_esp32PollPending, board >>
    /\ UNCHANGED schedVars

\* Lines 266-307: the decision to update, and the fast WiFi connect with the
\* wait for its result entered
SetupVerify ==
    /\ caller.pc = "verify"
    /\ LET ver == link.s_version
           needUpdate == \/ ~caller.ready
                         \/ ver.partition # PARTITION_OTA_0
                         \/ Outdated(ver)
           runningAppPartition == ~caller.ready \/ ver.partition = PARTITION_OTA_0
           r == connectWifiFast(Drv, OTA_WIFI_SSID_LEN, OTA_WIFI_PASS_LEN,
                                OTA_WIFI_BSSID_BYTES, OTA_WIFI_CHANNEL, Silent)
       IN  IF needUpdate
           THEN /\ esp32' = r.D.esp32
                /\ link' = [r.D.link EXCEPT !.s_wifiConnectResult = FALSE,
                                            !.s_wifiConnectSuccess = FALSE]
                /\ wait' = Entered("wifi", 0, WIFI_TIMEOUT_MS, millis)
                /\ caller' = [caller EXCEPT !.pc = "wifi1", !.needUpdate = TRUE,
                                            !.runningAppPartition = runningAppPartition]
                /\ done' = Called("connectWifiFast", r.ret, r.cmd, r.data)
           ELSE /\ caller' = At("ready3", millis)
                /\ SetupStep("upToDate")
                /\ UNCHANGED << esp32, link, wait >>
    /\ UNCHANGED << millis, g_esp32PollPending, board >>
    /\ UNCHANGED schedVars

\* Lines 343-355: delay(250) when the updater was running already, then
\* downloadAndFlash(FIRMWARE_URL) and the start of the wait for progress
Download(D, now) ==
    LET r == downloadAndFlash(D, FIRMWARE_URL_LEN, Silent)
    IN  /\ SetDrv(r.D)
        /\ millis' = now
        /\ caller' = [At("flashStart", now) EXCEPT !.networkAvailable = TRUE]
        /\ done' = Called("downloadAndFlash", r.ret, r.cmd, r.data)

\* Lines 306-321 and 432-436: waitForWifiConnect has returned; without a
\* network the update is given up, from the application image the
\* co-processor is reset into the updater
SetupNetwork ==
    /\ caller.pc = "wifi1"
    /\ wait.pc = "idle"
    /\ IF ~done.ret
       THEN /\ millis' = Add32(millis, STATUS_DELAY_MS)
            /\ caller' = At("ready3", Add32(millis, STATUS_DELAY_MS))
            /\ SetupStep("noNetwork")
            /\ UNCHANGED << esp32, link >>
       ELSE IF caller.runningAppPartition
       THEN /\ link' = reset(link)
            /\ millis' = Add32(millis, RESET_MS)
            /\ caller' = [At("ready2", Add32(millis, RESET_MS))
                             EXCEPT !.networkAvailable = TRUE]
            /\ done' = Called("reset", TRUE, 0, << 1 >>)
            /\ UNCHANGED esp32
       ELSE Download(Drv, Add32(millis, UPDATER_DELAY_MS))
    /\ UNCHANGED << wait, g_esp32PollPending, board >>
    /\ UNCHANGED schedVars

\* Lines 322-337: the result of waitForESP32Ready(2000) is not looked at;
\* delay(250), the fast WiFi connect again and the wait for its result
SetupUpdater ==
    /\ caller.pc = "updater"
    /\ LET r == connectWifiFast(Drv, OTA_WIFI_SSID_LEN, OTA_WIFI_PASS_LEN,
                                OTA_WIFI_BSSID_BYTES, OTA_WIFI_CHANNEL, Silent)
       IN  /\ esp32' = r.D.esp32
           /\ link' = [r.D.link EXCEPT !.s_wifiConnectResult = FALSE,
                                       !.s_wifiConnectSuccess = FALSE]
           /\ done' = Called("connectWifiFast", r.ret, r.cmd, r.data)
    /\ millis' = Add32(millis, UPDATER_DELAY_MS)
    /\ wait' = Entered("wifi", 0, WIFI_TIMEOUT_MS, Add32(millis, UPDATER_DELAY_MS))
    /\ caller' = [caller EXCEPT !.pc = "wifi2"]
    /\ UNCHANGED << g_esp32PollPending, board >>
    /\ UNCHANGED schedVars

\* Lines 337-355: the second waitForWifiConnect has returned; delay(1000)
\* when not connected, then the download all the same
SetupDownload ==
    /\ caller.pc = "wifi2"
    /\ wait.pc = "idle"
    /\ Download(Drv, IF isConnected(link) THEN millis
                     ELSE Add32(millis, WIFI_FAILED_DELAY_MS))
    /\ UNCHANGED << wait, g_esp32PollPending, board >>
    /\ UNCHANGED schedVars

\* Lines 357-369: while (getFlashProgress() == 0.0) { poll(); delay(50);
\* if (millis() - t0 > 10000) { delay(500); break; } }
FlashStartStep(rxBuf) ==
    /\ caller.pc = "flashStart"
    /\ IF getFlashProgress(link).num # Float32(U32(0, 0))
       THEN /\ caller' = At("flashing", caller.t0)
            /\ SetupStep("flashStarted")
            /\ UNCHANGED << esp32, link, millis >>
       ELSE LET now == Add32(millis, FLASH_POLL_DELAY_MS)
            IN  /\ SetDrv(poll(Drv, rxBuf))
                /\ SetupStep("poll")
                /\ IF Less32(U32(0, FLASH_START_TIMEOUT_MS), Sub32(now, caller.t0))
                   THEN /\ millis' = Add32(now, STATUS_DELAY_MS)
                        /\ caller' = At("flashing", caller.t0)
                   ELSE /\ millis' = now
                        /\ caller' = [caller EXCEPT !.polls = @ + 1]
    /\ UNCHANGED << wait, g_esp32PollPending, board >>
    /\ UNCHANGED schedVars

\* Lines 371-378: while (isFlashing()) { poll(); delay(50); }, and at its end
\* lines 380-399: the two status delays, validatePartition() and the start of
\* the wait for its answer
FlashingStep(rxBuf) ==
    /\ caller.pc = "flashing"
    /\ IF link.s_flashing
       THEN /\ caller.polls < MaxFlashingPolls
            /\ SetDrv(poll(Drv, rxBuf))
            /\ millis' = Add32(millis, FLASH_POLL_DELAY_MS)
            /\ caller' = [caller EXCEPT !.polls = @ + 1]
            /\ SetupStep("poll")
       ELSE LET now == Add32(millis, (IF link.s_flashError THEN STATUS_DELAY_MS ELSE 0)
                                   + (IF ~isFlashComplete(link) THEN STATUS_DELAY_MS ELSE 0))
                r == validatePartition(Drv, Silent)
            IN  /\ SetDrv(r.D)
                /\ millis' = now
                /\ caller' = [At("validate", now) EXCEPT !.validated = FALSE]
                /\ done' = Called("validatePartition", r.ret, r.cmd, r.data)
    /\ UNCHANGED << wait, g_esp32PollPending, board >>
    /\ UNCHANGED schedVars

\* Lines 401-410: while (millis() - t0 < 5000) { poll(); if
\* (isPartitionValid()) { validated = true; break; } delay(50); }
ValidateStep(rxBuf) ==
    /\ caller.pc = "validate"
    /\ IF Less32(Sub32(millis, caller.t0), U32(0, VALIDATE_TIMEOUT_MS))
       THEN LET D == poll(Drv, rxBuf)
            IN  /\ SetDrv(D)
                /\ SetupStep("poll")
                /\ IF D.link.s_partitionValid
                   THEN /\ caller' = [caller EXCEPT !.pc = "boot", !.validated = TRUE]
                        /\ UNCHANGED millis
                   ELSE /\ caller' = [caller EXCEPT !.polls = @ + 1]
                        /\ millis' = Add32(millis, FLASH_POLL_DELAY_MS)
       ELSE /\ caller' = [caller EXCEPT !.pc = "boot"]
            /\ SetupStep("notValidated")
            /\ UNCHANGED << esp32, link, millis >>
    /\ UNCHANGED << wait, g_esp32PollPending, board >>
    /\ UNCHANGED schedVars

\* Lines 412-421: a failed validation is reported and delay(500) follows;
\* then setBootPartition(PARTITION_OTA_0) in every case, and the wait for its
\* acknowledgement is entered
SetupBoot ==
    /\ caller.pc = "boot"
    /\ LET now == IF ~caller.validated \/ link.s_validatedPartition # PARTITION_OTA_0
                  THEN Add32(millis, STATUS_DELAY_MS) ELSE millis
           r == setBootPartition(Drv, PARTITION_OTA_0, Silent)
       IN  /\ esp32' = r.D.esp32
           /\ link' = [r.D.link EXCEPT !.s_lastAckedCmd = 0]
           /\ millis' = now
           /\ wait' = Entered("ack", CMD_SET_BOOT_PARTITION, BOOT_ACK_TIMEOUT_MS, now)
           /\ done' = Called("setBootPartition", r.ret, r.cmd, r.data)
    /\ caller' = [caller EXCEPT !.pc = "bootAck"]
    /\ UNCHANGED << g_esp32PollPending, board >>
    /\ UNCHANGED schedVars

\* Lines 421-430: waitForAck has returned; delay(500) when it failed, then
\* reset(false), and the last waitForESP32Ready (line 438) begins
SetupReboot ==
    /\ caller.pc = "bootAck"
    /\ wait.pc = "idle"
    /\ LET now == Add32(millis, (IF done.ret THEN 0 ELSE STATUS_DELAY_MS) + RESET_MS)
       IN  /\ millis' = now
           /\ caller' = At("ready3", now)
    /\ link' = reset(link)
    /\ done' = Called("reset", TRUE, 0, << 0 >>)
    /\ UNCHANGED << esp32, wait, g_esp32PollPending, board >>
    /\ UNCHANGED schedVars

\* The co-processor answers at the first poll of a wait or not in that wait
Prompt(rxBuf) ==
    \/ rxBuf = Silent
    \/ IF wait.pc = "idle" THEN caller.polls = 0 ELSE wait.polls = 0

\* FEHESP32::servicePoll followed statement by statement, the timer
\* interrupt taken between any two of them.  Line 41: the flag is tested
ServicePollTest(maxCalls) ==
    /\ NormalContext
    /\ mainPc = "idle"
    /\ DriverIdle(maxCalls)
    /\ IF g_esp32PollPending
       THEN /\ caller' = [caller EXCEPT !.pc = "pollClear"]
            /\ UNCHANGED done
       ELSE /\ done' = Called("servicePoll", FALSE, 0, << >>)
            /\ UNCHANGED caller
    /\ UNCHANGED << esp32, link, millis, wait, g_esp32PollPending, board >>
    /\ UNCHANGED schedVars

\* Line 43: g_esp32PollPending = false
ServicePollClear ==
    /\ NormalContext
    /\ caller.pc = "pollClear"
    /\ g_esp32PollPending' = FALSE
    /\ caller' = [caller EXCEPT !.pc = "pollExchange"]
    /\ UNCHANGED << esp32, link, millis, wait, done, board >>
    /\ UNCHANGED schedVars

\* A servicePoll that clears the flag when the exchange is over
ServicePollExchange_ClearsAfter(rxBuf) ==
    /\ NormalContext
    /\ caller.pc = "pollExchange"
    /\ SetDrv(poll(Drv, rxBuf))
    /\ g_esp32PollPending' = FALSE
    /\ caller' = [caller EXCEPT !.pc = "idle"]
    /\ done' = Called("servicePoll", TRUE, 0, << >>)
    /\ UNCHANGED << millis, wait, board >>
    /\ UNCHANGED schedVars

\* Line 44: ESP32::poll(), and servicePoll returns
ServicePollExchange(rxBuf) ==
    /\ NormalContext
    /\ caller.pc = "pollExchange"
    /\ SetDrv(poll(Drv, rxBuf))
    /\ caller' = [caller EXCEPT !.pc = "idle"]
    /\ done' = Called("servicePoll", TRUE, 0, << >>)
    /\ UNCHANGED << millis, wait, g_esp32PollPending, board >>
    /\ UNCHANGED schedVars

\* Sleep(ms) called from normal context, part_006 lines 7-8:
\* FEHESP32::servicePoll(), then delay(ms)
Sleep(ms, rxBuf, maxCalls) ==
    /\ NormalContext
    /\ mainPc = "idle"
    /\ DriverIdle(maxCalls)
    /\ SetDrv(servicePoll(Drv, g_esp32PollPending, rxBuf))
    /\ g_esp32PollPending' = FALSE
    /\ millis' = Add32(millis, ms)
    /\ done' = CalledWith("Sleep", TRUE, 0, << >>, << ms >>)
    /\ UNCHANGED << wait, caller, board >>
    /\ UNCHANGED schedVars

\* _powerScalingFactor of a motor built for 12 V (part_007 line 50):
\* (uint8_t)((12.0 / 12.0) * 255.0)
POWER_SCALING == 255

\* part_007 lines 127-140: the power clamped to -100..100 and scaled to the
\* 8-bit pulse width
MotorPwm(percent) ==
    LET clamped == IF percent < -100 THEN -100
                   ELSE IF percent > 100 THEN 100 ELSE percent
        size == IF clamped < 0 THEN -clamped ELSE clamped
    IN  (size * POWER_SCALING) \div 100

\* FEHMotor::SetPercent(percent) called from normal context (part_007 lines
\* 97-170): the pulse width of the motor is written
SetPercent(percent, maxCalls) ==
    /\ NormalContext
    /\ mainPc = "idle"
    /\ DriverIdle(maxCalls)
    /\ board' = [board EXCEPT !.pwm = MotorPwm(percent)]
    /\ done' = CalledWith("SetPercent", TRUE, 0, << >>, << percent >>)
    /\ UNCHANGED << esp32, link, millis, wait, caller, g_esp32PollPending >>
    /\ UNCHANGED schedVars

\* Motor powers: beyond the range, and a part of full power
MotorPercents == { -128, 50 }

\* Readings of the battery pin: 682 is 10.0 V
BatteryReadings == { 681, 682, ADC_MAX }

\* The tasks setup() schedules (FEHInternal.cpp lines 452 and 574)
SystemRequests ==
    { [callback |-> "eventHealthCheck", ticks |-> 0],
      [callback |-> "eventESP32Poll", ticks |-> ESP32_POLL_TICKS] }

\* The poll task and the health check run by the scheduler, the program
\* sleeping in normal context
NextHealth ==
    \/ FEHESP32Init(MaxSleepCalls) /\ NormalContext /\ mainPc = "idle"
    \/ \E r \in SystemRequests : ScheduleCheck(r.callback, r.ticks, MaxHealthCalls)
    \/ ScheduleInsert
    \/ TickToMatch
    \/ IsrEnter
    \/ IsrDispatch
    \/ \E i2cFault \in BOOLEAN, ioFault \in BOOLEAN, adc \in BatteryReadings :
          \E rxBuf \in NameResponses :
             IsrDispatchHealthCheck(i2cFault, ioFault, adc, rxBuf)
    \/ IsrExit
    \/ \E rxBuf \in NameResponses : Sleep(KILL_TONE_MS, rxBuf, MaxSleepCalls)
    \/ \E percent \in MotorPercents : SetPercent(percent, MaxSleepCalls)

SpecHealth == Init /\ [][NextHealth]_vars

\* The poll task setting the flag while servicePoll runs; setup() starts the
\* driver (FEHInternal.cpp line 262) before it schedules the poll task
\* (line 574)
NextService ==
    \/ FEHESP32Init(MaxServiceCalls) /\ NormalContext /\ mainPc = "idle"
    \/ /\ esp32.s_isInitialized /\ caller.pc = "idle"
       /\ ScheduleCheck("eventESP32Poll", ESP32_POLL_TICKS, MaxHealthCalls)
    \/ ScheduleInsert
    \/ TickToMatch
    \/ IsrEnter
    \/ IsrDispatch
    \/ IsrExit
    \/ ServicePollTest(MaxServiceCalls)
    \/ ServicePollClear
    \/ \E rxBuf \in NameResponses : ServicePollExchange(rxBuf)

SpecService == Init /\ [][NextService]_vars

\* The startup update sequence with the waits it calls
NextSetup ==
    \/ SetupBegin
    \/ \E rxBuf \in SetupResponses(caller.pc) : Prompt(rxBuf) /\ ReadyStep(rxBuf)
    \/ SetupVerify
    \/ SetupNetwork
    \/ SetupUpdater
    \/ SetupDownload
    \/ \E rxBuf \in SetupResponses(caller.pc) : Prompt(rxBuf) /\ FlashStartStep(rxBuf)
    \/ \E rxBuf \in SetupResponses(caller.pc) : Prompt(rxBuf) /\ FlashingStep(rxBuf)
    \/ \E rxBuf \in SetupResponses(caller.pc) : Prompt(rxBuf) /\ ValidateStep(rxBuf)
    \/ SetupBoot
    \/ SetupReboot
    \/ WaitTest
    \/ \E rxBuf \in SetupResponses(caller.pc) : Prompt(rxBuf) /\ WaitPoll(rxBuf, 0)
    \/ WaitDelay

SpecSetup == Init /\ [][NextSetup]_vars

Next ==
    \/ \E r \in Requests : ScheduleCheck(r.callback, r.ticks, MaxCalls)
    \/ ScheduleInsert
    \/ \E cb \in CancelTargets : CancelEvents(cb)
    \/ \E k \in {1, TicksToMatch} : Tick(k)
    \/ IsrEnter
    \/ IsrDispatch
    \/ IsrExit

Spec == Init /\ [][Next]_vars

\* Callbacks that take time: ticks pass while the handler runs
NextSlow ==
    \/ \E r \in SlowRequests : ScheduleCheck(r.callback, r.ticks, MaxCalls)
    \/ ScheduleInsert
    \/ \E cb \in CancelTargets : CancelEvents(cb)
    \/ \E k \in {1, TicksToMatch} : Tick(k)
    \/ IsrEnter
    \/ IsrDispatch
    \/ IsrExit
    \/ IsrTick

SpecSlow == Init /\ [][NextSlow]_vars

\* Delays at both ends of the 16-bit range
NextWide ==
    \/ \E r \in WideRequests : ScheduleCheck(r.callback, r.ticks, MaxWideCalls)
    \/ ScheduleInsert
    \/ \E k \in {1, TicksToMatch} : Tick(k)
    \/ IsrEnter
    \/ IsrDispatch
    \/ IsrExit

SpecWide == Init /\ [][NextWide]_vars

\* Short requests, with the timer and the processor running on
NextLive ==
    \/ \E r \in ShortRequests : ScheduleCheck(r.callback, r.ticks, MaxShortCalls)
    \/ ScheduleInsert
    \/ \E k \in {1, TicksToMatch} : Tick(k)
    \/ IsrEnter
    \/ IsrDispatch
    \/ IsrExit

\* The timer keeps counting and the processor keeps executing
RunsOn ==
    \/ ScheduleInsert
    \/ \E k \in {1, TicksToMatch} : Tick(k)
    \/ IsrEnter
    \/ IsrDispatch
    \/ IsrExit

SpecLive == Init /\ [][NextLive]_vars /\ WF_vars(RunsOn)

\* The queue filled up to its capacity
NextFull ==
    \/ \E r \in FillRequests : ScheduleCheck(r.callback, r.ticks, MaxFillCalls)
    \/ ScheduleInsert
    \/ \E k \in {1, TicksToMatch} : Tick(k)
    \/ IsrEnter
    \/ IsrDispatch
    \/ IsrExit

SpecFull == Init /\ [][NextFull]_vars

\* The health check sharing the queue with user events up to its capacity:
\* setup() schedules the health check (FEHInternal.cpp line 452) before the
\* program schedules events that schedule further events
NextCrowded ==
    \/ calls = 0 /\ ScheduleCheck("eventHealthCheck", 0, MaxCrowdCalls)
    \/ calls > 0 /\ ScheduleCheck("callback_schedules_1_and_2", 1, MaxCrowdCalls)
    \/ ScheduleInsert
    \/ \E k \in {1, TicksToMatch} : Tick(k)
    \/ IsrEnter
    \/ IsrDispatch
    \/ \E i2cFault \in BOOLEAN, ioFault \in BOOLEAN :
          IsrDispatchHealthCheck(i2cFault, ioFault, ADC_MAX, Silent)
    \/ IsrExit

SpecCrowded == Init /\ [][NextCrowded]_vars

\* The requests of test_2_events_nested_scheduling (part_010 lines 496-502)
NestedRequests ==
    { [callback |-> "callback1", ticks |-> 2 * NESTED_TICKS],
      [callback |-> "callback_schedules_2_in_5000_ticks", ticks |-> NESTED_TICKS] }

\* A callback that schedules while another event is pending, callbacks
\* taking less than a tick as those of the tests do
NextNested ==
    \/ \E r \in NestedRequests : ScheduleCheck(r.callback, r.ticks, MaxNestedCalls)
    \/ ScheduleInsert
    \/ \E k \in {1, TicksToMatch} : Tick(k)
    \/ IsrEnter
    \/ IsrDispatch
    \/ IsrExit

SpecNested == Init /\ [][NextNested]_vars

\* delay(320) of test_2_events_one_delayed_start (part_010 line 490)
DELAY_MS == 320

\* The ticks the timer counts during the delay
DelayTicks == (DELAY_MS * 1000) \div TICK_US

\* The program waits in delay(320) with no event due before its end
Delay ==
    /\ NormalContext
    /\ mainPc = "idle"
    /\ TCCR4B
    /\ TCNT4 + DelayTicks < OCR4A
    /\ TCNT4' = TCNT4 + DelayTicks
    /\ eventData' = Older(eventData, DelayTicks)
    /\ last' = Did("tick", "none", 0, DelayTicks, TRUE)
    /\ UNCHANGED << numEventsPending, OCR4A, TCCR4B, TIMSK4, TIFR4, inISR, mainPc, arg,
                    outOfBounds, calls >>
    /\ UNCHANGED driverVars

\* The requests of test_2_events_one_delayed_start (part_010 lines 486-494),
\* and a second event that is due after the earlier one
DelayedRequests ==
    { [callback |-> "callback1", ticks |-> 3 * DelayTicks],
      [callback |-> "callback2", ticks |-> DelayTicks],
      [callback |-> "callback2", ticks |-> 3 * DelayTicks - 1] }

\* An event scheduled while an earlier one has been counting for some time
NextDelayed ==
    \/ \E r \in DelayedRequests : ScheduleCheck(r.callback, r.ticks, MaxDelayedCalls)
    \/ ScheduleInsert
    \/ Delay
    \/ \E k \in {1, TicksToMatch} : Tick(k)
    \/ IsrEnter
    \/ IsrDispatch
    \/ IsrExit

SpecDelayed == Init /\ [][NextDelayed]_vars

\* Normal-context calls followed statement by statement
NextStep ==
    \/ \E r \in Requests : ScheduleCheck(r.callback, r.ticks, MaxStepCalls)
    \/ ScheduleStop
    \/ ScheduleEdit
    \/ \E cb \in CancelTargets : CancelStop(cb)
    \/ CancelEdit
    \/ RestartTimer
    \/ \E k \in {1, TicksToMatch} : Tick(k)
    \/ IsrEnter
    \/ IsrDispatch
    \/ IsrExit

SpecStep == Init /\ [][NextStep]_vars

\* The driver sending and receiving frames of every length
NextFrames ==
    \/ FEHESP32Init(MaxFrameCalls)
    \/ \E cmd \in Commands, data \in Payloads, rxBuf \in FrameResponses :
          SendCommand(cmd, data, rxBuf, MaxFrameCalls)
    \/ \E rxBuf \in FrameResponses : Poll(rxBuf, MaxFrameCalls)

SpecFrames == Init /\ [][NextFrames]_vars

\* The steps of a blocking wait
WaitSteps(responses) ==
    \/ WaitTest
    \/ \E rxBuf \in responses, ms \in {0, MaxPollMs} : WaitPoll(rxBuf, ms)
    \/ WaitDelay

\* The driver around its blocking waits
NextWait ==
    \/ FEHESP32Init(MaxWaitCalls)
    \/ \E rxBuf \in EarlierResponses :
          SendCommand(CMD_BLE_SET_NAME, << 1, 97 >>, rxBuf, MaxWaitCalls)
    \/ \E cmdId \in WaitedCommands, t \in Timeouts : WaitForAck(cmdId, t, MaxWaitCalls)
    \/ \E t \in Timeouts : WaitForWifiConnect(t, MaxWaitCalls)
    \/ Reset(MaxWaitCalls)
    \/ WaitSteps(WaitResponses)

SpecWait == Init /\ [][NextWait]_vars

\* A co-processor that never sends a valid frame, the processor running on
NextSilent ==
    \/ FEHESP32Init(MaxWaitCalls)
    \/ \E t \in Timeouts : WaitForWifiConnect(t, MaxWaitCalls)
    \/ WaitSteps(SilentResponses)

SpecSilent == InitAnyTime /\ [][NextSilent]_vars /\ WF_vars(WaitSteps(SilentResponses))

\* The driver around a firmware download
NextFlash ==
    \/ FEHESP32Init(MaxFlashCalls)
    \/ \E urlLen \in {5, 33}, rxBuf \in FlashResponses :
          DownloadAndFlash(urlLen, rxBuf, MaxFlashCalls)
    \/ \E rxBuf \in FlashResponses : Poll(rxBuf, MaxFlashCalls)
    \/ Reset(MaxFlashCalls)

SpecFlash == Init /\ [][NextFlash]_vars

\* The driver dispatching every kind of frame
NextLink ==
    \/ FEHESP32Init(MaxLinkCalls)
    \/ \E rxBuf \in LinkResponses : Poll(rxBuf, MaxLinkCalls)
    \/ SetRCSCallback(MaxLinkCalls)
    \/ Reset(MaxLinkCalls)

SpecLink == Init /\ [][NextLink]_vars

\* The driver receiving frames with every kind of LEN byte
NextLen ==
    \/ FEHESP32Init(MaxLenCalls)
    \/ \E rxBuf \in LenResponses : Poll(rxBuf, MaxLenCalls)
    \/ SetRCSCallback(MaxLenCalls)

SpecLen == Init /\ [][NextLen]_vars

\* The co-processor answers a wait within its first polls or stays silent
Answers(rxBuf) == rxBuf = Silent \/ wait.polls < MaxAnswerPolls

\* The driver starting and stopping the BLE log
NextBle ==
    \/ FEHESP32Init(MaxBleCalls)
    \/ \E name \in DeviceNames, rxBuf \in BleResponses : StartBLELog(name, rxBuf, MaxBleCalls)
    \/ \E rxBuf \in BleResponses : StartBLELogResume(rxBuf)
    \/ \E rxBuf \in BleResponses : StopBLELog(rxBuf, MaxBleCalls)
    \/ \E rxBuf \in BleResponses : Poll(rxBuf, MaxBleCalls)
    \/ WaitTest
    \/ \E rxBuf \in NameResponses : Answers(rxBuf) /\ WaitPoll(rxBuf, 0)
    \/ WaitDelay

SpecBle == Init /\ [][NextBle]_vars

\* The driver commands called with valid and with invalid arguments
NextInput ==
    \/ FEHESP32Init(MaxInputCalls)
    \/ \E rxBuf \in EarlierResponses : Poll(rxBuf, MaxInputCalls)
    \/ \E ssid \in FieldLengths, password \in FieldLengths :
          ConnectWifi(ssid, password, Silent, MaxInputCalls)
    \/ \E ssid \in FieldLengths, password \in FieldLengths,
          bssid \in { NullPtr, OTA_WIFI_BSSID_BYTES } :
          ConnectWifiFast(ssid, password, bssid, Silent, MaxInputCalls)
    \/ \E ip \in { NullPtr, RCS_SERVER_IP_BYTES }, teamKey \in { 0, 9, 12 } :
          ConnectRCS(ip, teamKey, Silent, MaxInputCalls)
    \/ \E url \in TextLengths : DownloadAndFlash(url, Silent, MaxInputCalls)
    \/ \E msg \in TextLengths \cup { NoString } : SendBLELog(msg, Silent, MaxInputCalls)

SpecInput == Init /\ [][NextInput]_vars

TypeOK ==
    /\ numEventsPending \in 0..(SCHEDULER_MAX_EVENTS + 1)
    /\ Len(eventData) = numEventsPending
    /\ OCR4A \in 0..(UINT16_MOD - 1)
    /\ TCNT4 \in 0..(UINT16_MOD - 1)

(* ---------------------------------------------------------------------- *)
(* Properties                                                              *)
(* ---------------------------------------------------------------------- *)

\* C1: a scheduleEvent call made while 8 events are pending returns false
\* and leaves the queue as it was: the same 8 entries in the same order,
\* the pending count still 8, and no insertion is started.
C1_RejectedAtCapacity ==
    [][ (mainPc = "idle" /\ numEventsPending = SCHEDULER_MAX_EVENTS
            /\ last'.op \in {"scheduleEvent", "check"})
        => /\ last'.op = "scheduleEvent"
           /\ last'.ret = FALSE
           /\ eventData' = eventData
           /\ numEventsPending' = SCHEDULER_MAX_EVENTS
           /\ mainPc' = "idle"
           /\ outOfBounds' = outOfBounds ]_vars

C1_Witness ==
    /\ last.op = "scheduleEvent"
    /\ last.ret = FALSE
    /\ numEventsPending = SCHEDULER_MAX_EVENTS
    /\ Len(eventData) = SCHEDULER_MAX_EVENTS

\* C2: after cancelEvents(cb) returns, whether called from normal context or
\* by a callback, the queue holds no entry whose callback is cb; and a
\* callback with no entry in the queue is not dispatched by the next step,
\* so cb fires again only after it has been scheduled again.
C2_CancelRemovesAll ==
    /\ [](last.op = "cancelEvents"
            => \A i \in DOMAIN eventData : eventData[i].callback # last.callback)
    /\ []((last.op = "dispatch" /\ last.callback = "buzzerOff")
            => \A i \in DOMAIN eventData : eventData[i].callback # "buzzerOff")
    /\ [][ \A cb \in Callbacks :
              (\A i \in DOMAIN eventData : eventData[i].callback # cb)
              => ~(last'.op = "dispatch" /\ last'.callback = cb) ]_vars

\* Two or more entries of the callback were removed, and another stays
C2_Witness ==
    /\ last.op = "cancelEvents"
    /\ last.removed >= 2
    /\ numEventsPending >= 1

\* The entries of q whose callback is not cb
Survivors(q, cb) == SelectSeq(q, LAMBDA e : e.callback # cb)

\* C3: cancelEvents(cb) keeps every entry whose callback differs from cb,
\* in the same order, with its remaining ticks reduced by exactly the ticks
\* elapsed since the timer was programmed, and the timer restarted from 0
\* for the first of them: the absolute due time of each is unchanged (it is
\* still the compensated delay it was scheduled with).
C3_CancelKeepsOthers ==
    /\ [][ last'.op = "cancelEvents"
            => LET keep == Survivors(eventData, last'.callback)
               IN  /\ Len(eventData') = Len(keep)
                   /\ numEventsPending' = Len(keep)
                   /\ \A i \in DOMAIN keep :
                         /\ eventData'[i].callback = keep[i].callback
                         /\ eventData'[i].req = keep[i].req
                         /\ eventData'[i].age = keep[i].age
                         /\ eventData'[i].ticks - TCNT4' = keep[i].ticks - TCNT4
                   /\ (keep # << >>
                         => TCCR4B' /\ TIMSK4' /\ TCNT4' = 0
                            /\ OCR4A' = eventData'[1].ticks) ]_vars
    /\ [](last.op = "cancelEvents"
            => \A i \in DOMAIN eventData :
                  eventData[i].ticks = CompensateTicks(eventData[i].req) - eventData[i].age)

\* An entry was removed, two others stay, time had passed since they were scheduled
C3_Witness ==
    /\ last.op = "cancelEvents"
    /\ last.removed >= 1
    /\ numEventsPending >= 2
    /\ eventData[1].age >= 1
    /\ eventData[1].ticks < eventData[2].ticks

\* The ticks from now to the time an entry was requested for
DueIn(e) == e.req - e.age

\* C4, as claimed: callbacks fire in non-decreasing order of requested delay
\* relative to the time of scheduling; when a callback is dispatched, no
\* entry with another requested delay that is still pending was due earlier.
C4_OrderByRequestedDelay ==
    last.op = "dispatch"
    => \A i \in DOMAIN eventData :
          eventData[i].req # last.req => DueIn(eventData[i]) >= DueIn(last)

\* C4, amended: the order holds among requests of at least 2 ticks (requests
\* of 0, 1 and 2 ticks are all stored as 1 tick and fire in the order of the
\* calls).
C4_OrderFromTwoTicks ==
    (last.op = "dispatch" /\ last.req >= 2)
    => \A i \in DOMAIN eventData :
          eventData[i].req >= 2 => DueIn(eventData[i]) >= DueIn(last)

\* A request fired while one with a larger delay, scheduled earlier, is pending
C4_Witness ==
    /\ last.op = "dispatch"
    /\ last.req >= 2
    /\ \E i \in DOMAIN eventData :
          /\ eventData[i].req > last.req
          /\ eventData[i].age > last.age
          /\ eventData[i].ticks > 0

\* max(1, d - 1)
OneOrLess(d) == IF d - 1 > 1 THEN d - 1 ELSE 1

\* C5: an accepted request of d ticks is stored with max(1, d-1) remaining
\* ticks, a value in 1..65534 (never 0, never wrapped), and its callback is
\* dispatched within 1 tick of d after the call: exactly max(1, d-1) ticks
\* after it (a request of 0 fires after 1 tick).
C5_StoredAndFiredInTime ==
    /\ (last.op = "scheduleEvent" /\ last.ret)
         => /\ OneOrLess(last.req) \in 1..(UINT16_MOD - 2)
            /\ \E i \in DOMAIN eventData :
                  /\ eventData[i].callback = last.callback
                  /\ eventData[i].req = last.req
                  /\ eventData[i].age = 0
                  /\ eventData[i].ticks = OneOrLess(last.req)
    /\ last.op = "dispatch"
         => /\ last.age = OneOrLess(last.req)
            /\ last.age - last.req \in {-1, 0, 1}

\* The longest request fired, 65534 ticks after it was made
C5_Witness ==
    /\ last.op = "dispatch"
    /\ last.req = 65535
    /\ last.age = 65534

\* An entry of callback cb requested with 0 ticks is pending
ZeroTickPending(cb) ==
    \E i \in DOMAIN eventData : eventData[i].callback = cb /\ eventData[i].req = 0

ZeroTickFired(cb) == last.op = "dispatch" /\ last.callback = cb /\ last.req = 0

\* C6: a request of 0 ticks that was accepted is eventually dispatched, also
\* with other requests of 0 ticks or 1 tick in the queue.
C6_ZeroTickFires ==
    ZeroTickPending("callback1") ~> ZeroTickFired("callback1")

\* A 0-tick request fired while a 0-tick and a 1-tick request of others wait
C6_Witness ==
    /\ ZeroTickFired("callback1")
    /\ \E i \in DOMAIN eventData : eventData[i].req = 0 /\ eventData[i].callback = "callback2"
    /\ \E i \in DOMAIN eventData : eventData[i].req = 1

Sorted(q) == \A i \in 1..(Len(q) - 1) : q[i].ticks <= q[i + 1].ticks

\* C7: whenever scheduleEvent, cancelEvents or the interrupt handler has
\* returned, the pending entries are in non-decreasing order of remaining
\* ticks, and the subtraction of the elapsed ticks with its clamp to zero
\* leaves the entries in the order they had.
C7_SortedWhenIdle ==
    /\ [](~inISR => Sorted(eventData))
    /\ [][last'.clamped => Sorted(eventData')]_vars
    /\ [][last'.op = "isrEnter" =>
            /\ Sorted(eventData')
            /\ [i \in DOMAIN eventData' |-> eventData'[i].callback]
                 = [i \in DOMAIN eventData |-> eventData[i].callback]]_vars

\* A call made by a callback clamped an entry to zero while entries with
\* different remaining ticks were pending
C7_Witness ==
    /\ last.op = "dispatch"
    /\ last.clamped
    /\ numEventsPending >= 2
    /\ eventData[1].ticks = 0
    /\ eventData[numEventsPending].ticks > 0

\* C8: the pending count stays in 0..8 and every write to the queue goes to
\* a slot 0..7, also when callbacks schedule from inside the interrupt
\* handler and when the handler runs between the capacity check and the
\* timer stop of a scheduleEvent in normal context.
C8_CountWithinCapacity ==
    /\ numEventsPending \in 0..SCHEDULER_MAX_EVENTS
    /\ Len(eventData) <= SCHEDULER_MAX_EVENTS
    /\ ~outOfBounds

WithoutEntry(q, k) == SubSeq(q, 1, k - 1) \o SubSeq(q, k + 1, Len(q))

ClampedAtZero(ticks, elapsed) == IF ticks > elapsed THEN ticks - elapsed ELSE 0

\* C9: on a compare match the programmed interval is subtracted from every
\* entry and the result is clamped at zero; the handler fires the entries at
\* zero from the front of the queue and returns only when none is left; an
\* entry is taken out of the queue before its callback runs, so that a
\* callback that schedules itself finds its new entry in the queue after the
\* handler has removed the old one.
C9_HandlerFiresZeroEntries ==
    /\ [][last'.op = "isrEnter" =>
            /\ Len(eventData') = Len(eventData)
            /\ \A i \in DOMAIN eventData :
                  /\ eventData'[i].callback = eventData[i].callback
                  /\ eventData'[i].ticks = ClampedAtZero(eventData[i].ticks, OCR4A)
                  /\ eventData'[i].ticks <= eventData[i].ticks]_vars
    /\ [][last'.op = "dispatch" =>
            /\ eventData[1].ticks = 0
            /\ last'.callback = eventData[1].callback
            /\ last'.req = eventData[1].req
            /\ (CallbackBody(last'.callback) = << >> =>
                   /\ eventData' = Tail(eventData)
                   /\ numEventsPending' = numEventsPending - 1)
            /\ (last'.callback = "eventESP32Poll" =>
                   /\ numEventsPending' = numEventsPending
                   /\ \E k \in DOMAIN eventData' :
                         /\ eventData'[k] =
                              EventData("eventESP32Poll",
                                        CompensateTicks(ESP32_POLL_TICKS),
                                        ESP32_POLL_TICKS)
                         /\ [i \in DOMAIN Tail(eventData) |->
                                [callback |-> WithoutEntry(eventData', k)[i].callback,
                                 req |-> WithoutEntry(eventData', k)[i].req]]
                            = [i \in DOMAIN Tail(eventData) |->
                                [callback |-> Tail(eventData)[i].callback,
                                 req |-> Tail(eventData)[i].req]])]_vars
    /\ [][last'.op = "isrExit" =>
            /\ \A i \in DOMAIN eventData : eventData[i].ticks > 0
            /\ eventData' = eventData]_vars

\* eventESP32Poll has fired and scheduled itself while a further entry at
\* zero waits for the same interrupt
C9_Witness ==
    /\ inISR
    /\ last.op = "dispatch"
    /\ last.callback = "eventESP32Poll"
    /\ EventDue(Sched)
    /\ \E i \in DOMAIN eventData :
          eventData[i].callback = "eventESP32Poll" /\ eventData[i].age = 0

\* C10: when the interrupt handler returns with an empty queue the timer is
\* disabled (no clock, no compare match interrupt); when entries remain the
\* timer is programmed to the remaining ticks of the first entry.
C10_TimerOffWhenEmpty ==
    last.op = "isrExit" =>
        IF numEventsPending = 0
        THEN ~TCCR4B /\ ~TIMSK4
        ELSE TCCR4B /\ TIMSK4 /\ TCNT4 = 0 /\ OCR4A = eventData[1].ticks

\* C11: while a normal-context scheduleEvent or cancelEvents is between its
\* timer stop and its timer restart, the timer does not count, no compare
\* match interrupt is pending or enabled and the handler does not run; and
\* every step taken from inside that window is a step of the call itself,
\* never a timer tick or a step of the handler.
C11_NoHandlerInStoppedWindow ==
    /\ [](mainPc \in StoppedWindow
            => ~inISR /\ ~TCCR4B /\ ~TIMSK4 /\ ~TIFR4)
    /\ [][(mainPc \in StoppedWindow)
            => /\ last'.op \in {"edit", "scheduleEvent", "cancelEvents"}
               /\ inISR' = FALSE]_vars
    /\ [][(mainPc \in {"edited", "cancelEdited"} /\ numEventsPending > 0)
            => /\ eventData' = eventData
               /\ TCCR4B' /\ TIMSK4' /\ TCNT4' = 0
               /\ OCR4A' = eventData[1].ticks]_vars

\* The queue was edited with the timer stopped, while an entry that had been
\* counted down by the running timer was pending
C11_Witness ==
    /\ mainPc \in {"edited", "cancelEdited"}
    /\ numEventsPending >= 2
    /\ \E i \in DOMAIN eventData : eventData[i].age >= 1 /\ eventData[i].ticks >= 1

\* sendCommand has been accepted and has transferred a frame
Sent == done.op = "sendCommand" /\ done.ret

\* C12: the LEN byte of a frame built by sendCommand is the number of payload
\* bytes clamped to the maximum payload size, never the original length of a
\* longer payload; it is at most 41.
C12_LenByteClamped ==
    Sent => /\ esp32.tx[4] <= UPDATER_PROTOCOL_DATA_SIZE
            /\ (~HasSyncBytes(done.data)
                  => esp32.tx[4] = Min(Len(done.data), UPDATER_PROTOCOL_DATA_SIZE))

\* The frame decodes to the command id and the payload that were sent
RoundTrip ==
    /\ HasSyncBytes(esp32.tx)
    /\ ReceivedMessage(esp32.tx) =
         [command |-> done.cmd, length |-> Len(done.data), payload |-> done.data]

\* C13, as claimed: for every command id and every payload of 0..41 bytes the
\* frame built by sendCommand decodes, by the inbound dispatch, to the same
\* command id, length and payload bytes.
C13_RoundTrip ==
    (Sent /\ Len(done.data) <= UPDATER_PROTOCOL_DATA_SIZE) => RoundTrip

\* C13, amended: the round trip holds for the payloads of 0..41 bytes that do
\* not begin with the sync bytes 0xAA 0x55.
C13_RoundTripWithoutSync ==
    (Sent /\ Len(done.data) <= UPDATER_PROTOCOL_DATA_SIZE /\ ~HasSyncBytes(done.data))
    => RoundTrip

\* A payload of the largest size was sent and decodes to itself
C13_Witness ==
    /\ Sent
    /\ Len(done.data) = UPDATER_PROTOCOL_DATA_SIZE
    /\ ~HasSyncBytes(done.data)
    /\ RoundTrip

C15_RejectedOnlyBeforeInit ==
    /\ [][done'.op = "sendCommand" =>
            IF esp32.s_isInitialized
            THEN done'.ret /\ esp32'.exchanges = esp32.exchanges + 1
            ELSE ~done'.ret /\ esp32' = esp32 /\ link' = link]_vars
    /\ [][(done'.op = "poll" /\ ~esp32.s_isInitialized)
            => esp32' = esp32 /\ link' = link]_vars

\* A command was rejected before initialization, nothing was exchanged
C15_Witness ==
    /\ done.op = "sendCommand"
    /\ ~done.ret
    /\ done.n >= 2
    /\ esp32.exchanges = 0
    /\ esp32.callbacks = 0

\* C16: after an exchange whose response begins with the sync bytes the
\* callback has been invoked once, with a length of 4 plus the LEN byte
\* clamped to the maximum payload size 41; after a response that does not
\* begin with them the callback is not invoked and the link state is kept.
C16_CallbackLengthClamped ==
    /\ (HasSyncBytes(esp32.rx) /\ esp32.s_rxCallback # "nullptr")
         => esp32.len = UPDATER_PROTOCOL_HEADER_SIZE
                        + Min(esp32.rx[4], UPDATER_PROTOCOL_DATA_SIZE)
    /\ esp32.len <= UPDATER_PROTOCOL_HEADER_SIZE + UPDATER_PROTOCOL_DATA_SIZE

\* The step is a transfer whose response, a frame with command id cmd, was
\* dispatched to the driver
Dispatched(cmd) ==
    /\ esp32'.exchanges = esp32.exchanges + 1
    /\ esp32'.callbacks = esp32.callbacks + 1
    /\ HasSyncBytes(esp32'.rx)
    /\ esp32'.rx[3] = cmd

\* C17: when a poll made inside waitForWifiConnect receives a
\* NOTIFY_WIFI_CONNECTED frame the wait returns true in that very step, with
\* no further poll and no sleep, and isConnected() is true; isConnected()
\* then stays true until a disconnected or failed notification is dispatched
\* or the driver is reset.
C17_ConnectedEndsWait ==
    /\ [][(wait.pc = "poll" /\ wait.kind = "wifi" /\ Dispatched(NOTIFY_WIFI_CONNECTED))
            => /\ wait'.pc = "idle"
               /\ wait'.polls = wait.polls + 1
               /\ done'.op = "waitForWifiConnect"
               /\ done'.ret
               /\ isConnected(link')]_vars
    /\ [][(isConnected(link) /\ ~isConnected(link'))
            => \/ done'.op = "reset"
               \/ Dispatched(NOTIFY_WIFI_DISCONNECTED)
               \/ Dispatched(NOTIFY_WIFI_FAILED)]_vars

\* The wait returned true on its second poll, after one sleep
C17_Witness ==
    /\ done.op = "waitForWifiConnect"
    /\ done.ret
    /\ wait.polls = 2
    /\ esp32.rx[3] = NOTIFY_WIFI_CONNECTED
    /\ isConnected(link)

\* Milliseconds since the wait in progress took its start time (the waits
\* modelled last far less than 65536 ms)
ElapsedMs == (millis.lo - wait.startTime.lo) % UINT16_MOD

\* The wait for WiFi has returned false
TimedOut == wait.pc = "idle" /\ done.op = "waitForWifiConnect" /\ ~done.ret

\* C18: with a co-processor that never sends a valid frame,
\* waitForWifiConnect(t) goes on polling while less than t milliseconds have
\* elapsed, returns false at the first test made once t milliseconds have
\* elapsed, every wait does return false, and isConnected() stays false.
C18_SilentWaitTimesOut ==
    /\ [][(wait.kind = "wifi" /\ wait.pc = "test")
            => IF ElapsedMs >= wait.timeoutMs.lo
               THEN wait'.pc = "idle" /\ done'.op = "waitForWifiConnect" /\ ~done'.ret
               ELSE wait'.pc = "poll"]_vars
    /\ (wait.kind = "wifi") ~> TimedOut
    /\ [] ~isConnected(link)

\* The wait returned false after two polls that brought only garbage
C18_Witness ==
    /\ TimedOut
    /\ wait.polls = 2
    /\ esp32.exchanges >= 2
    /\ esp32.rx \in Garbage
    /\ ~isConnected(link)

\* bytes / total in single precision, 0 when total is 0
Fraction(bytes, total) ==
    IF total = U32(0, 0)
    THEN [num |-> U32(0, 0), den |-> U32(0, 1)]
    ELSE [num |-> Float32(bytes), den |-> Float32(total)]

\* The call that ran is a downloadAndFlash whose URL had at most 32 characters
Downloading == done'.n = done.n + 1 /\ done'.op = "downloadAndFlash" /\ done'.data[1] <= 32

\* C19: a dispatched progress notification (bytes, total) makes the flash
\* progress bytes / total, 0 when total is 0 (a notification too short to
\* carry both leaves it as it was); isFlashComplete() becomes true only by
\* the dispatch of NOTIFY_FLASH_COMPLETE, never by a progress or failed
\* notification, and is true after that dispatch; downloadAndFlash clears it,
\* and it then stays true until a reset or the next downloadAndFlash.
C19_FlashProgressAndCompletion ==
    /\ [][\A v \in ProgressValues :
            (Dispatched(NOTIFY_FLASH_PROGRESS) /\ esp32'.rx = ProgressFrame(v[1], v[2]))
            => getFlashProgress(link') = Fraction(v[1], v[2])]_vars
    /\ [][(Dispatched(NOTIFY_FLASH_PROGRESS) /\ esp32'.len < 12 /\ ~Downloading)
            => getFlashProgress(link') = getFlashProgress(link)]_vars
    /\ [][(~isFlashComplete(link) /\ isFlashComplete(link'))
            => Dispatched(NOTIFY_FLASH_COMPLETE)]_vars
    /\ [][Dispatched(NOTIFY_FLASH_COMPLETE) => isFlashComplete(link')]_vars
    /\ [][Downloading
            => (isFlashComplete(link') <=> Dispatched(NOTIFY_FLASH_COMPLETE))]_vars
    /\ [][(isFlashComplete(link) /\ ~isFlashComplete(link'))
            => done'.op \in {"reset", "downloadAndFlash"}]_vars

\* A download was started, a progress of 16777217 bytes was reported (2^24
\* as a float) and then the completion
C19_Witness ==
    /\ done.n = 4
    /\ isFlashComplete(link)
    /\ ~link.s_flashing
    /\ esp32.rx[3] = NOTIFY_FLASH_COMPLETE
    /\ link.s_flashBytes = U32(256, 1)
    /\ getFlashProgress(link) = [num |-> U32(256, 0), den |-> U32(65536, 0)]

\* The step is the return of true by the waitForAck in progress
AckWaitReturnsTrue ==
    /\ wait.kind = "ack"
    /\ wait.pc # "idle"
    /\ wait'.pc = "idle"
    /\ done'.op = "waitForAck"
    /\ done'.ret

\* C20: waitForAck(X, t) returns true only in a step in which one of its own
\* polls dispatches an ack frame that carries X; an ack for X dispatched
\* before the call, and cleared on entry, does not make it return true.
C20_TrueOnlyAfterOwnAck ==
    [][AckWaitReturnsTrue
        => /\ wait.pc = "poll"
           /\ Dispatched(RSP_ACK)
           /\ esp32'.len >= 5
           /\ esp32'.rx[5] = wait.cmdId]_vars

\* C21: the dispatch of a pong with its 4 payload bytes, or of a
\* wifi-connected notification, makes isConnected() true.
C21_ConnectedByPongOrWifi ==
    /\ [][(Dispatched(RSP_PONG) /\ esp32'.len >= 8) => isConnected(link')]_vars
    /\ [][Dispatched(NOTIFY_WIFI_CONNECTED) => isConnected(link')]_vars

\* The fields of the link session state
SessionFields ==
    {"s_version", "s_connected", "s_flashing", "s_flashComplete", "s_flashError",
     "s_flashErrorCode", "s_flashBytes", "s_flashTotal", "s_partitionValid",
     "s_validatedPartition", "s_lastAckedCmd", "s_wifiConnectResult",
     "s_wifiConnectSuccess", "s_rcsConnected", "s_bleState"}

\* C22: when FEHESP32::reset has returned every field of the link session
\* state has its initialization default, whatever was dispatched before, and
\* the flash progress is 0.
C22_ResetRestoresDefaults ==
    done.op = "reset" =>
        /\ \A f \in SessionFields : link[f] = LinkDefaults[f]
        /\ getFlashProgress(link) = Fraction(U32(0, 0), U32(0, 0))

\* The number of payload bytes taken by the fixed fields of a response
FixedFields ==
    [c \in {RSP_ACK, NOTIFY_FLASH_FAILED, RSP_PARTITION_VALID, RSP_BLE_STATUS,
            NOTIFY_BLE_CLIENT_EVENT} |-> 1]
    @@ (RSP_PONG :> 4) @@ (NOTIFY_FLASH_PROGRESS :> 8)

\* The step dispatches a response of kind c whose LEN byte is less than the
\* size of its fixed fields
DispatchedShort(c) == Dispatched(c) /\ esp32'.rx[4] < FixedFields[c]

\* C23: an ack, pong, flash progress, flash failed, partition valid, BLE
\* status or BLE client event whose payload is shorter than its fixed fields
\* changes no field of the link session state.
C23_ShortFrameDropped ==
    [][\A c \in DOMAIN FixedFields : DispatchedShort(c) => link' = link]_vars

\* isRCSConnected() changes only by an RCS-connected or RCS-disconnected
\* notification or by a reset
RcsFlagByNotification ==
    [][(link'.s_rcsConnected # link.s_rcsConnected)
        => \/ Dispatched(NOTIFY_RCS_CONNECTED)
           \/ Dispatched(NOTIFY_RCS_DISCONNECTED)
           \/ done'.op = "reset"]_vars

\* The step dispatches an RCS data notification of at least 5 payload bytes
RcsDataDispatched == Dispatched(NOTIFY_RCS_DATA) /\ esp32'.rx[4] >= 5

\* After the step the RCS record holds the first four bytes of the notification
RcsDataOverwritten ==
    /\ link'.RCS._correctLever = esp32'.rx[5]
    /\ link'.RCS._leverFlipped = esp32'.rx[6]
    /\ link'.RCS._dualSliderStatus = esp32'.rx[7]
    /\ link'.RCS._time = esp32'.rx[8]

\* C25, as claimed: isRCSConnected() changes only by the RCS-connected and
\* RCS-disconnected notifications and by reset; every RCS data notification
\* of at least 5 payload bytes overwrites lever, lever-flipped, slider and
\* time, whatever the flag, and leaves the flag as it was.
C25_RcsDataAlwaysOverwrites ==
    /\ RcsFlagByNotification
    /\ [][RcsDataDispatched
            => RcsDataOverwritten /\ link'.s_rcsConnected = link.s_rcsConnected]_vars

\* C25, amended: the data notification overwrites the record once the RCS
\* data callback has been registered; before that it changes nothing.
C25_RcsDataOverwritesOnceRegistered ==
    /\ RcsFlagByNotification
    /\ [][RcsDataDispatched
            => /\ link'.s_rcsConnected = link.s_rcsConnected
               /\ IF link.s_rcsCallback # "nullptr"
                  THEN RcsDataOverwritten
                  ELSE link' = link]_vars

\* The data record was overwritten while the RCS link was not connected
C25_Witness ==
    /\ esp32.rx # << >>
    /\ esp32.rx[3] = NOTIFY_RCS_DATA
    /\ link.RCS = [_correctLever |-> 2, hasLever |-> TRUE, _leverFlipped |-> 1,
                   _dualSliderStatus |-> 2, _time |-> 90]
    /\ ~link.s_rcsConnected

\* The step is a BLE command, sent and accepted by the transport
BleCommandSent(op) == done'.op = op /\ done'.ret /\ esp32'.exchanges = esp32.exchanges + 1

\* The step dispatches a BLE client event of kind e
BleClientEvent(e) ==
    Dispatched(NOTIFY_BLE_CLIENT_EVENT) /\ esp32'.len >= 5 /\ esp32'.rx[5] = e

\* C24: the BLE state goes from Off to Advertising when the start command is
\* sent, from Advertising to Connected on a client-connect event, from
\* Connected to Advertising on a client-disconnect event and to Off when
\* the stop command is sent; a BLE-status response sets it to the state
\* the response carries.
C24_BleStateMachine ==
    /\ [][(BleCommandSent("startBLELog") /\ link.s_bleState = BLE_STATE_OFF
              /\ ~HasSyncBytes(esp32'.rx))
            => link'.s_bleState = BLE_STATE_ADVERTISING]_vars
    /\ [][(BleClientEvent(BLE_EVENT_CLIENT_CONNECTED) /\ link.s_bleState = BLE_STATE_ADVERTISING)
            => link'.s_bleState = BLE_STATE_CONNECTED]_vars
    /\ [][(BleClientEvent(BLE_EVENT_CLIENT_DISCONNECTED) /\ link.s_bleState = BLE_STATE_CONNECTED)
            => link'.s_bleState = BLE_STATE_ADVERTISING]_vars
    /\ [][(BleCommandSent("stopBLELog") /\ ~HasSyncBytes(esp32'.rx))
            => link'.s_bleState = BLE_STATE_OFF]_vars
    /\ [][(Dispatched(RSP_BLE_STATUS) /\ esp32'.len >= 5)
            => link'.s_bleState = esp32'.rx[5]]_vars

\* The call that ran was given invalid input
InvalidInput ==
    /\ done'.n = done.n + 1
    /\ LET a == done'.args
       IN  \/ done'.op = "connectWifi" /\ (a[1] > 16 \/ a[2] > 16)
           \/ done'.op = "connectWifiFast" /\ (a[1] > 16 \/ a[2] > 16 \/ a[3] = 0)
           \/ done'.op = "connectRCS" /\ a[1] = 0
           \/ done'.op = "downloadAndFlash" /\ a[1] > 32
           \/ done'.op = "sendBLELog" /\ (a[1] = NoString \/ a[1] = 0 \/ a[1] > 32)

\* C26: a driver command given an SSID or password longer than 16 bytes, a
\* null BSSID or IP, a URL longer than 32 bytes or a null, empty or
\* longer-than-32-byte log message returns false, makes no exchange and
\* leaves the link session state as it was.
C26_InvalidInputRejected ==
    [][InvalidInput => ~done'.ret /\ esp32' = esp32 /\ link' = link]_vars

\* The step sends the command cmd to the co-processor
CommandSent(cmd) == esp32'.exchanges # esp32.exchanges /\ esp32'.tx[3] = cmd

\* C27: in the startup update sequence the set-boot-partition command for
\* the OTA partition is sent only after a partition-valid response for that
\* partition was received; after a failed flash or a failed or timed-out
\* validation it is not sent.
C27_BootSwitchOnlyAfterValidation ==
    [][CommandSent(CMD_SET_BOOT_PARTITION)
         => /\ caller.validated
            /\ link.s_partitionValid
            /\ link.s_validatedPartition = PARTITION_OTA_0
            /\ ~link.s_flashError]_vars

UpdaterCommands == { CMD_DOWNLOAD_AND_FLASH, CMD_SET_BOOT_PARTITION, CMD_VALIDATE_PARTITION }

\* C28: download-and-flash, set-boot-partition and validate-partition are
\* sent only while the partition the co-processor reported last is the
\* factory partition.
C28_UpdaterCommandsOnlyToFactoryImage ==
    [][(\E cmd \in UpdaterCommands : CommandSent(cmd))
         => link.s_version.partition = PARTITION_FACTORY]_vars

\* No more than limit milliseconds have passed since start
Within(start, limit) == ~Less32(U32(0, limit), Sub32(millis, start))

\* The waits that test a timeout are inside it, one iteration's delay allowed
TimedWaitsWithinTimeout ==
    /\ wait.pc # "idle" => Within(wait.startTime, wait.timeoutMs.lo + WAIT_DELAY_MS)
    /\ caller.pc \in { "ready1", "ready2", "ready3" }
         => Within(caller.t0, ReadyTimeout + READY_DELAY_MS)
    /\ caller.pc = "flashStart"
         => Within(caller.t0, FLASH_START_TIMEOUT_MS + FLASH_POLL_DELAY_MS)
    /\ caller.pc = "validate"
         => Within(caller.t0, VALIDATE_TIMEOUT_MS + FLASH_POLL_DELAY_MS)

\* C29: every blocking wait of the driver and of the startup update sequence
\* is over within its timeout, whatever the co-processor sends or does not
\* send; the wait while isFlashing() within the timeout the sequence gives
\* the flash to start.
C29_WaitsReturnWithinTimeout ==
    /\ TimedWaitsWithinTimeout
    /\ caller.pc = "flashing" /\ link.s_flashing
         => caller.polls * FLASH_POLL_DELAY_MS <= FLASH_START_TIMEOUT_MS

\* The step makes a transfer to and from the co-processor
Exchanged == esp32'.exchanges > esp32.exchanges

\* C30: no exchange with the co-processor is made in timer-interrupt
\* context: the scheduler's callbacks, the fault paths of the health check
\* included, leave the exchange to normal context.
C30_NoExchangeInInterrupt ==
    [][Exchanged => ~inISR]_vars

\* The step is a run of the health check
HealthChecked ==
    /\ inISR /\ EventDue(Sched) /\ eventData[1].callback = "eventHealthCheck"
    /\ vars' # vars

\* The step restarts the program: everything but the lines read is as at start
Restarted ==
    /\ ~inISR' /\ last' = NoOp /\ done' = NoCall /\ eventData' = << >>
    /\ esp32' = Esp32Defaults /\ link' = LinkDefaults /\ caller' = NoCaller

\* The step stops the program with reason on the kill screen
Halted(reason) == caller'.pc = "killed" /\ board'.reason = reason

\* C31: a health check that reads both fault lines active restarts the
\* program; one that reads exactly one of them active stops the program with
\* the reason naming that fault; one that reads none active neither restarts
\* nor stops, and leaves the low-battery LED on exactly when the voltage
\* sampled, reading * 15 / 1023, is below 10 V.
C31_HealthCheckOutcomes ==
    [][HealthChecked =>
         /\ (board'.i2cFault /\ board'.ioFault) => Restarted
         /\ (board'.i2cFault /\ ~board'.ioFault) => Halted("I2C fault")
         /\ (~board'.i2cFault /\ board'.ioFault) => Halted("IO fault")
         /\ (~board'.i2cFault /\ ~board'.ioFault) =>
              /\ ~Restarted
              /\ caller'.pc # "killed"
              /\ board'.reason = "none"
              /\ board'.BATT_LOW_LED <=>
                   (board'.adc * 15 < LOW_BATTERY_THRESHOLD * ADC_MAX)]_vars

C31_Witness ==
    /\ last.op = "dispatch" /\ last.callback = "eventHealthCheck"
    /\ board.adc = 681 /\ board.BATT_LOW_LED
    /\ ~board.i2cFault /\ ~board.ioFault

\* An entry of the health check is held in one of the slots of eventData
HealthCheckPending ==
    \E i \in 1..Len(eventData) :
        i <= SCHEDULER_MAX_EVENTS /\ eventData[i].callback = "eventHealthCheck"

\* C32: once an entry of the health check is in the queue, every step that
\* neither stops nor restarts the program leaves an entry of it in the queue,
\* a run of the health check included: its own reschedule is never turned
\* down for capacity, whatever other events are scheduled meanwhile.
C32_HealthCheckStaysPending ==
    [][(HealthCheckPending /\ caller'.pc # "killed" /\ ~Restarted)
          => HealthCheckPending']_vars

\* The number of entries of cb in the queue
Entries(q, cb) == Cardinality({ i \in DOMAIN q : q[i].callback = cb })

\* The program has stopped safely: interrupts disabled, the motor drivers
\* asleep with no pulse width, the handler never left
SafeHalt ==
    /\ caller.pc = "killed"
    /\ inISR
    /\ ~board.interrupts
    /\ ~board.MOTOR_nSLEEP /\ board.pwm = 0

\* C33: a health check that stops the program leaves it stopped safely
\* without scheduling itself again, and from then on nothing changes: no
\* callback is dispatched, nothing is scheduled, the motors stay asleep and
\* stopped, interrupts stay disabled.
C33_HaltIsFinal ==
    [][(caller.pc = "killed" \/ caller'.pc = "killed")
          => /\ caller.pc # "killed"
             /\ SafeHalt'
             /\ Entries(eventData', "eventHealthCheck")
                  = Entries(eventData, "eventHealthCheck") - 1]_vars

\* The program stopped with the motor running before, an event still queued
\* and the poll-pending flag cleared by the tone's Sleep
C33_Witness ==
    /\ SafeHalt
    /\ done.op = "SetPercent" /\ done.args = << -128 >>
    /\ numEventsPending > 0
    /\ board.reason = "IO fault"

\* ACCEPTABLE_MICROS_ERROR_BOTH (part_010 line 331), 128 microseconds, in ticks
TOLERANCE_TICKS == 2

\* The step dispatches an event within the tolerance of its requested delay
OnTime ==
    /\ last'.age <= last'.req + TOLERANCE_TICKS
    /\ last'.req <= last'.age + TOLERANCE_TICKS

C35_DelayedStartOnTime ==
    [][(last'.op = "dispatch") => (last'.age = CompensateTicks(last'.req))]_vars

\* callback1 is dispatched 14999 ticks after its call with 15000, callback2
\* scheduled 5000 ticks after it and due later still pending
C35_Witness ==
    /\ last.op = "dispatch" /\ last.callback = "callback1"
    /\ last.req = 3 * DelayTicks /\ last.age = 3 * DelayTicks - 1
    /\ numEventsPending = 1
    /\ eventData[1].callback = "callback2"
    /\ eventData[1].age = 2 * DelayTicks - 1

\* The test's case: callback2 scheduled 5000 ticks after callback1 and with
\* 5000 ticks is dispatched first, callback1 waiting with 5000 ticks to go
C35_WitnessSupport ==
    /\ last.op = "dispatch" /\ last.callback = "callback2"
    /\ last.req = DelayTicks /\ last.age = DelayTicks - 1
    /\ numEventsPending = 1
    /\ eventData[1].callback = "callback1"
    /\ eventData[1].age = 2 * DelayTicks - 1
    /\ eventData[1].ticks = DelayTicks

C37_FlashFlagsExclusive ==
    /\ ~(link.s_flashing /\ isFlashComplete(link))
    /\ ~(link.s_flashing /\ link.s_flashError)
    /\ ~(isFlashComplete(link) /\ link.s_flashError)

\* The step is a poll of the waitForAck in progress that dispatches an ack
\* frame carrying the command id waited for
WaitedAckDispatched ==
    /\ wait.kind = "ack" /\ wait.pc = "poll"
    /\ Dispatched(RSP_ACK)
    /\ esp32'.len >= 5
    /\ esp32'.rx[5] = wait.cmdId

\* C38: for every command id X and timeout t > 0, waitForAck(X, t) returns
\* true after a poll exactly when that poll dispatched an ack frame carrying
\* X, and returns false when its time runs out, so with no ack frame received
\* it returns false.
C38_TrueIffAckDispatched ==
    /\ [][(wait.kind = "ack" /\ wait.pc = "poll" /\ wait'.pc # "poll")
            => ((wait'.pc = "idle" /\ done'.ret) <=> WaitedAckDispatched)]_vars
    /\ [][(wait.kind = "ack" /\ wait.pc = "test" /\ wait'.pc = "idle")
            => ~done'.ret]_vars

\* C39: when waitForWifiConnect has returned, its result is the value of
\* isConnected(): true exactly when the link is connected, also when the
\* wifi-connected notification came in with the exchange of the connect
\* command, before the wait was entered.
C39_WifiWaitResultIsConnected ==
    (wait.pc = "idle" /\ done.op = "waitForWifiConnect")
        => (done.ret <=> isConnected(link))

\* The step dispatches a received frame to the message handler
FrameDispatched ==
    /\ esp32'.callbacks = esp32.callbacks + 1
    /\ HasSyncBytes(esp32'.rx)

\* The step gives the RCS data of the received frame to the callback
RcsCallbackCalled ==
    /\ FrameDispatched
    /\ esp32'.rx[3] = NOTIFY_RCS_DATA
    /\ link.s_rcsCallback # "nullptr" /\ esp32'.len > 4

\* C40: whatever the LEN byte of a received frame, the message handler reads
\* no byte outside the 48 bytes of the frame, and the length it gives to the
\* RCS data callback is at most the number of payload bytes the frame holds.
C40_ReadsInsideFrame ==
    /\ [][FrameDispatched
            => \A i \in handleMessageReads(link, esp32'.rx, esp32'.len) :
                  i < ESP32_TX_BUF_LEN]_vars
    /\ [][RcsCallbackCalled
            => rcsCallbackLen(esp32'.rx)
                 <= ESP32_TX_BUF_LEN - UPDATER_PROTOCOL_HEADER_SIZE]_vars

====
